---- MODULE Spec2Model ----
(***************************************************************************)
(* A model of the data-pipeline core of GoogleCloudPlatform/Data-Pipeline:  *)
(*   - ShardStage.ShardStage           (src/app/src/pipelines/shardstage.py) *)
(*   - the sharding stages' run()      (csvmatchreplace/httpinput/s3input)   *)
(*   - Gcs.ComposeObjects, SplitEvenly (src/app/src/clients/gcs.py)          *)
(*   - PipelineLinter, LintResults     (src/app/src/pipelines/linter.py)     *)
(*   - TransformRow, ReadTransformWriteRows (csvmatchreplace)                *)
(* Each component has its own initial predicate and next-state relation;    *)
(* the variables of the components that a specification does not exercise   *)
(* stay at their idle values.                                               *)
(***************************************************************************)
EXTENDS Integers, Sequences, FiniteSets, TLC

(***************************************************************************)
(* Bounds of the model.                                                     *)
(***************************************************************************)
MaxStart == 1
MaxLength == 9
MaxShardSize == 5
MaxSinks == 2
MaxRunLength == 4
SmallSources == 2
ExtraSources == 2

VARIABLES
  \* ---- ShardStage ------------------------------------------------------
  config,        \* the stage config dict handed to ShardStage (mutable)
  config0,       \* a copy of that dict taken before the call
  shards,        \* the shard configs returned by ShardStage
  compositors,   \* the compositor configs returned by ShardStage
  shardPc,       \* "idle" | "ready" | "split" | "unsplit"
  uuidCount,     \* number of uuid.uuid4() calls made so far
  \* ---- a sharding stage's run() under the orchestrator ------------------
  stage,         \* "CsvMatchReplace" | "HttpInput" | "S3Input" | "none"
  sourceSize,    \* size of the source object, -1 when it cannot be learnt
  shardTask,     \* per yielded shard: "pending" | "running" | "done"
  compTask,      \* per yielded compositor: "pending" | "running" | "done"
  compAfter,     \* the shard futures the compositors were yielded After
  \* ---- Gcs.ComposeObjects ------------------------------------------------
  store,         \* the bucket: object name -> [content, parts]
  stack,         \* the call stack of ComposeObjects frames
  requests,      \* the requests sent to the object store, in order
  chunkLog,      \* every chunk SplitEvenly yielded: [n, max]
  srcObjects,    \* src_objects of the outermost call
  gcsResult,     \* "idle" | "running" | "returned" | "raised"
  gcsError,      \* "none" | "TypeError"
  \* ---- PipelineLinter.Lint ----------------------------------------------
  lintText,      \* config_json: the text being linted (then the rendered text)
  lintDefaults,  \* default_options
  lintConfig,    \* self.config
  lintResults,   \* self.results.results, the tree of check entries
  lintValid,     \* self.results.valid
  lintIdx,       \* number of stages linted so far
  lintPc,        \* position in Lint, "done", "raised" or "idle"
  lintError,     \* the exception that left the constructor, or "none"
  \* ---- ReadTransformWriteRows -------------------------------------------
  rowsConfig,    \* config of the CsvMatchReplace stage (its 'columns')
  rowsInput,     \* the rows csv_reader yields
  rowsLimit,     \* rows after which finished_func() is true, 0 without one
  badrowsFile,   \* TRUE when a bad-rows sink is configured
  rowCount,      \* row_count
  badRowCount,   \* bad_row_count
  primarySink,   \* the rows written through csv_writer, in order
  badrowsSink,   \* the records written to badrows_file, in order
  rowsPc,        \* "running" | "returned" | "raised" | "idle"
  rowsError,     \* the exception that left the loop, or "none"
  \* ---- the compositors of one ShardStage call, run by the orchestrator ----
  merges,        \* per compositor started: its ComposeObjects frame
  writes,        \* the compose requests sent so far: [task, url]
  \* ---- one call of a function of the program ----------------------------
  callArgs,      \* the arguments of the call
  callResult,    \* what the call returned, or the exception it raised
  callPc,        \* "ready" | "returned" | "raised" | "idle"
  \* ---- PushPipeline.run under the orchestrator ---------------------------
  pushDefn,      \* defn: the number of stages under each of its keys
  pushTask,      \* per task yielded so far: "pending" | "running" | "done"
  pushAfter      \* per task yielded so far: the tasks it was yielded After

shardVars == <<config, config0, shards, compositors, shardPc>>
runVars == <<stage, sourceSize, shardTask, compTask, compAfter>>
gcsVars == <<store, stack, requests, chunkLog, srcObjects, gcsResult, gcsError>>
lintVars == <<lintText, lintDefaults, lintConfig, lintResults, lintValid,
              lintIdx, lintPc, lintError>>
rowsVars == <<rowsConfig, rowsInput, rowsLimit, badrowsFile, rowCount,
              badRowCount, primarySink, badrowsSink, rowsPc, rowsError>>

taskVars == <<merges, writes>>
callVars == <<callArgs, callResult, callPc>>
pushVars == <<pushDefn, pushTask, pushAfter>>

vars == <<shardVars, uuidCount, runVars, gcsVars, lintVars, rowsVars, taskVars,
          callVars, pushVars>>

\* What the actions of one component leave unchanged.
notShardRun == <<gcsVars, lintVars, rowsVars, taskVars, callVars, pushVars>>
notGcs == <<shardVars, runVars, lintVars, rowsVars, taskVars, callVars,
            pushVars>>
notLint == <<shardVars, uuidCount, runVars, gcsVars, rowsVars, taskVars,
             callVars, pushVars>>
notRows == <<shardVars, uuidCount, runVars, gcsVars, lintVars, taskVars,
             callVars, pushVars>>
notTasks == <<runVars, gcsVars, lintVars, rowsVars, callVars, pushVars>>
notCall == <<shardVars, uuidCount, runVars, gcsVars, lintVars, rowsVars,
             taskVars, pushVars>>
notPush == <<shardVars, uuidCount, runVars, gcsVars, lintVars, rowsVars,
             taskVars, callVars>>

(***************************************************************************)
(* Generic helpers.                                                         *)
(***************************************************************************)
\* dict.get(key, default)
Get(d, key, default) == IF key \in DOMAIN d THEN d[key] ELSE default

\* int(math.ceil(float(a) / b)) for a >= 0, b >= 1
CeilDiv(a, b) == (a + b - 1) \div b

Min(a, b) == IF a < b THEN a ELSE b

RECURSIVE SumSeq(_)
SumSeq(s) == IF s = <<>> THEN 0 ELSE Head(s) + SumSeq(Tail(s))

(***************************************************************************)
(* Object names and URLs.  A GCS object name is the pair <<base, uuid>>:    *)
(* base identifies the user-given name (0: none) and uuid the uuid4 suffix  *)
(* appended by UrlCreator (0: none).  A URL is a bucket with a name.        *)
(***************************************************************************)
Name(base, uuid) == <<base, uuid>>

MakeUrl(bucket, obj) == [bucket |-> bucket, obj |-> obj]

UrlToBucketAndName(url) == <<url.bucket, url.obj>>

\* UrlCreator(bucket, prefix)() with the n-th uuid4 of the run: a new URL
\* under the prefix.
UrlCreator(bucket, prefix, n) == MakeUrl(bucket, Name(prefix[1], n))

(***************************************************************************)
(* ShardStage.ShardStage                                                    *)
(***************************************************************************)
\* Mutant: the shard size is left as the caller gave it (no rebalancing).
AdjustedShardSizeUnbalanced(length, shard_size) == shard_size

\* Mutant: the shard count is rounded down (math.floor for the inner
\* math.ceil), so the adjusted size can exceed the size the caller gave.
AdjustedShardSizeFloorCount(length, shard_size) ==
  CeilDiv(length, length \div shard_size)

\* shard_size = int(math.ceil(float(length) / math.ceil(float(length) / shard_size)))
\* (the operands are byte counts far below 2^53, where the float quotient
\* and its ceiling are exact)
AdjustedShardSize(length, shard_size) ==
  CeilDiv(length, CeilDiv(length, shard_size))

\* Mutant: a job exactly one shard long is split (< for <=).
NoNeedToShardStrict(cfg) ==
  LET length == Get(cfg, "length", 0)
      shard_size == Get(cfg, "shardSize", -1)
  IN  shard_size < 1 \/ length < shard_size

\* if shard_size < 1 or length <= shard_size: return ([], [])
NoNeedToShard(cfg) ==
  LET length == Get(cfg, "length", 0)
      shard_size == Get(cfg, "shardSize", -1)
  IN  shard_size < 1 \/ length <= shard_size

\* The sinks of the shard made when uuidCount = u: one new URL per sink.
ShardSinks(sinks, u) ==
  [i \in 1..Len(sinks) |->
     UrlCreator(UrlToBucketAndName(sinks[i])[1],
                UrlToBucketAndName(sinks[i])[2], u + i)]

\* Mutant: the shard length is not clamped to the end of the range.
ShardConfigUnclamped(cfg, position, final_position, shard_size, u) ==
  [k \in DOMAIN cfg \cup {"start", "length"} |->
     CASE k = "sinks"  -> ShardSinks(cfg["sinks"], u)
       [] k = "start"  -> position
       [] k = "length" -> shard_size
       [] OTHER        -> cfg[k]]

\* One pass of the while loop: the shard made at `position`.
ShardConfig(cfg, position, final_position, shard_size, u) ==
  [k \in DOMAIN cfg \cup {"start", "length"} |->
     CASE k = "sinks"  -> ShardSinks(cfg["sinks"], u)
       [] k = "start"  -> position
       [] k = "length" -> Min(shard_size, final_position - position)
       [] OTHER        -> cfg[k]]

\* while position < final_position: ... position += shard_size
RECURSIVE ShardLoop(_, _, _, _, _)
ShardLoop(cfg, position, final_position, shard_size, u) ==
  IF position < final_position
  THEN <<ShardConfig(cfg, position, final_position, shard_size, u)>>
         \o ShardLoop(cfg, position + shard_size, final_position, shard_size,
                      u + Len(cfg["sinks"]))
  ELSE <<>>

DEFAULT_CONTENT_TYPE == "binary/octet-stream"

\* Mutant: the sources of a compositor are listed last shard first.
CompositorConfigsReversed(cfg, shs) ==
  [i \in 1..Len(shs[1]["sinks"]) |->
     [contentType   |-> Get(cfg, "contentType", DEFAULT_CONTENT_TYPE),
      deleteSources |-> TRUE,
      sources       |-> [j \in 1..Len(shs) |-> shs[Len(shs) + 1 - j]["sinks"][i]],
      sinks         |-> <<cfg["sinks"][i]>>]]

\* for i in range(len(shard_sinks[0])): compositor_config = {...}
CompositorConfigs(cfg, shs) ==
  [i \in 1..Len(shs[1]["sinks"]) |->
     [contentType   |-> Get(cfg, "contentType", DEFAULT_CONTENT_TYPE),
      deleteSources |-> TRUE,
      sources       |-> [j \in 1..Len(shs) |-> shs[j]["sinks"][i]],
      sinks         |-> <<cfg["sinks"][i]>>]]

\* The config as ShardStage leaves it: config['shardSize'] = shard_size.
ConfigAfterShardStage(cfg) ==
  IF NoNeedToShard(cfg) THEN cfg
  ELSE [k \in DOMAIN cfg |->
          IF k = "shardSize"
          THEN AdjustedShardSize(cfg["length"], cfg["shardSize"])
          ELSE cfg[k]]

\* The shard configs ShardStage returns for cfg, with u uuids used before.
ShardStageShards(cfg, u) ==
  IF NoNeedToShard(cfg) THEN <<>>
  ELSE LET start == Get(cfg, "start", 0)
           length == Get(cfg, "length", 0)
       IN  ShardLoop(ConfigAfterShardStage(cfg), start, start + length,
                     AdjustedShardSize(length, cfg["shardSize"]), u)

ShardStageCompositors(cfg, u) ==
  IF NoNeedToShard(cfg) THEN <<>>
  ELSE CompositorConfigs(ConfigAfterShardStage(cfg), ShardStageShards(cfg, u))

(***************************************************************************)
(* The stage configs the model draws its inputs from.                       *)
(***************************************************************************)
SinkUrl(i) == MakeUrl("bucket", Name(i, 0))

Opt(key, present, value) == IF present THEN key :> value ELSE <<>>

\* The 'sinks' lists of the jobs: none, one or more URLs, a URL possibly
\* listed twice.
SinkLists ==
  UNION {[1..n -> {SinkUrl(i) : i \in 1..MaxSinks}] : n \in 0..MaxSinks}

JobConfigs ==
  { Opt("start", hs, st) @@ Opt("length", hl, ln) @@ Opt("shardSize", hz, sz)
      @@ ("sinks" :> sinks)
      @@ Opt("contentType", hc, "text/csv") :
    hs \in BOOLEAN, st \in 0..MaxStart,
    hl \in BOOLEAN, ln \in 0..MaxLength,
    hz \in BOOLEAN, sz \in -1..MaxShardSize,
    sinks \in SinkLists, hc \in BOOLEAN }

\* The run() variables of a specification that runs no stage.
RunIdle ==
  /\ stage = "none"
  /\ sourceSize = 0
  /\ shardTask = <<>>
  /\ compTask = <<>>
  /\ compAfter = {}

\* The ComposeObjects variables of a specification that composes nothing.
GcsIdle ==
  /\ store = <<>>
  /\ stack = <<>>
  /\ requests = <<>>
  /\ chunkLog = <<>>
  /\ srcObjects = <<>>
  /\ gcsResult = "idle"
  /\ gcsError = "none"

\* The ShardStage variables of a specification that shards nothing.
ShardIdle ==
  /\ config = <<>>
  /\ config0 = <<>>
  /\ shards = <<>>
  /\ compositors = <<>>
  /\ shardPc = "idle"

\* The linter variables of a specification that lints nothing.
LintIdle ==
  /\ lintText = <<>>
  /\ lintDefaults = <<>>
  /\ lintConfig = <<>>
  /\ lintResults = <<>>
  /\ lintValid = TRUE
  /\ lintIdx = 0
  /\ lintPc = "idle"
  /\ lintError = "none"

\* The row-transform variables of a specification that transforms nothing.
RowsIdle ==
  /\ rowsConfig = <<>>
  /\ rowsInput = <<>>
  /\ rowsLimit = 0
  /\ badrowsFile = FALSE
  /\ rowCount = 0
  /\ badRowCount = 0
  /\ primarySink = <<>>
  /\ badrowsSink = <<>>
  /\ rowsPc = "idle"
  /\ rowsError = "none"

\* The compositor variables of a specification that runs no compositor.
TasksIdle ==
  /\ merges = <<>>
  /\ writes = {}

\* The call variables of a specification that follows no single call.
CallIdle ==
  /\ callArgs = <<>>
  /\ callResult = <<>>
  /\ callPc = "idle"

\* The PushPipeline variables of a specification that runs no pipeline.
PushIdle ==
  /\ pushDefn = <<>>
  /\ pushTask = <<>>
  /\ pushAfter = <<>>

(***************************************************************************)
(* Actions of ShardStage.                                                   *)
(***************************************************************************)
\* (shards, compositors) = self.ShardStage(config), the job being split.
ShardStageSplit ==
  /\ shardPc = "ready"
  /\ ~NoNeedToShard(config)
  /\ shards' = ShardStageShards(config, uuidCount)
  /\ compositors' = ShardStageCompositors(config, uuidCount)
  /\ uuidCount' = uuidCount + Len(shards') * Len(config["sinks"])
  /\ config' = ConfigAfterShardStage(config)
  /\ shardPc' = "split"
  /\ UNCHANGED <<config0, runVars, notShardRun>>

\* (shards, compositors) = self.ShardStage(config), returning ([], []).
ShardStageUnsplit ==
  /\ shardPc = "ready"
  /\ NoNeedToShard(config)
  /\ shards' = <<>>
  /\ compositors' = <<>>
  /\ config' = ConfigAfterShardStage(config)
  /\ shardPc' = "unsplit"
  /\ UNCHANGED <<config0, uuidCount, runVars, notShardRun>>

InitShard ==
  /\ config \in JobConfigs
  /\ config0 = config
  /\ shards = <<>>
  /\ compositors = <<>>
  /\ shardPc = "ready"
  /\ uuidCount = 0
  /\ RunIdle
  /\ GcsIdle
  /\ LintIdle
  /\ RowsIdle
  /\ TasksIdle
  /\ CallIdle
  /\ PushIdle

NextShard == ShardStageSplit \/ ShardStageUnsplit

SpecShard == InitShard /\ [][NextShard]_vars

(***************************************************************************)
(* run() of the stages built on ShardStage, and the orchestrator running    *)
(* the stages they yield.                                                   *)
(***************************************************************************)
CHUNK_SIZE_4MB == 4194304
CHUNK_SIZE_8MB == 8388608

StageTypes == {"CsvMatchReplace", "HttpInput", "S3Input"}

SetKey(cfg, key, value) ==
  [k \in DOMAIN cfg \cup {key} |-> IF k = key THEN value ELSE cfg[k]]

\* The config as run() hands it to ShardStage: the defaults each stage fills
\* in for start, length and shardSize.
CsvMatchReplaceConfig(cfg, size) ==
  LET start == Get(cfg, "start", 0)
      c1 == IF "length" \notin DOMAIN cfg
            THEN SetKey(cfg, "length", size - start) ELSE cfg
  IN  IF "shardSize" \notin DOMAIN c1
      THEN SetKey(c1, "shardSize", CHUNK_SIZE_4MB) ELSE c1

HttpInputConfig(cfg, size) ==
  LET c0 == IF Get(cfg, "start", 0) = 0 THEN SetKey(cfg, "start", 0) ELSE cfg
      c1 == IF "length" \notin DOMAIN c0 /\ size >= 0
            THEN SetKey(c0, "length", size - c0["start"]) ELSE c0
  IN  IF "shardSize" \notin DOMAIN c1
      THEN SetKey(c1, "shardSize", CHUNK_SIZE_8MB) ELSE c1

S3InputConfig(cfg, size) ==
  LET c0 == IF Get(cfg, "start", 0) = 0 THEN SetKey(cfg, "start", 0) ELSE cfg
      c1 == IF Get(c0, "length", 0) = 0
            THEN SetKey(c0, "length", size) ELSE c0
  IN  IF "shardSize" \notin DOMAIN c1
      THEN SetKey(c1, "shardSize", CHUNK_SIZE_8MB) ELSE c1

PreparedConfig(stg, cfg, size) ==
  CASE stg = "CsvMatchReplace" -> CsvMatchReplaceConfig(cfg, size)
    [] stg = "HttpInput"       -> HttpInputConfig(cfg, size)
    [] stg = "S3Input"         -> S3InputConfig(cfg, size)

\* Mutant: the compositors wait for the first shard only.
AfterFuturesFirstOnly(shs) == {1}

\* pipeline.After(*[(yield shard) for shard in shards]): the futures of all
\* the shards just yielded.
AfterFutures(shs) == 1..Len(shs)

\* run(): ShardStage splits the job; every shard is yielded, then every
\* compositor inside the After block.
StageRunSharded ==
  /\ shardPc = "ready"
  /\ stage \in StageTypes
  /\ LET cfg == PreparedConfig(stage, config, sourceSize)
     IN  /\ ~NoNeedToShard(cfg)
         /\ shards' = ShardStageShards(cfg, uuidCount)
         /\ compositors' = ShardStageCompositors(cfg, uuidCount)
         /\ uuidCount' = uuidCount + Len(shards') * Len(cfg["sinks"])
         /\ config' = ConfigAfterShardStage(cfg)
  /\ shardPc' = "split"
  /\ shardTask' = [j \in 1..Len(shards') |-> "pending"]
  /\ compTask' = [i \in 1..Len(compositors') |-> "pending"]
  /\ compAfter' = AfterFutures(shards')
  /\ UNCHANGED <<config0, stage, sourceSize, notShardRun>>

\* run(): ShardStage returns ([], []) and the stage does its work itself.
StageRunUnsharded ==
  /\ shardPc = "ready"
  /\ stage \in StageTypes
  /\ LET cfg == PreparedConfig(stage, config, sourceSize)
     IN  /\ NoNeedToShard(cfg)
         /\ config' = ConfigAfterShardStage(cfg)
  /\ shards' = <<>>
  /\ compositors' = <<>>
  /\ shardPc' = "unsplit"
  /\ UNCHANGED <<config0, uuidCount, runVars, notShardRun>>

\* The orchestrator starts a yielded shard stage.
StartShard(j) ==
  /\ shardPc = "split"
  /\ shardTask[j] = "pending"
  /\ shardTask' = [shardTask EXCEPT ![j] = "running"]
  /\ UNCHANGED <<shardVars, uuidCount, stage, sourceSize, compTask, compAfter,
                 notShardRun>>

\* A shard stage completes.
FinishShard(j) ==
  /\ shardPc = "split"
  /\ shardTask[j] = "running"
  /\ shardTask' = [shardTask EXCEPT ![j] = "done"]
  /\ UNCHANGED <<shardVars, uuidCount, stage, sourceSize, compTask, compAfter,
                 notShardRun>>

\* The orchestrator starts a compositor yielded inside the After block: only
\* once every future handed to After has completed.
StartCompositor(i) ==
  /\ shardPc = "split"
  /\ compTask[i] = "pending"
  /\ \A j \in compAfter : shardTask[j] = "done"
  /\ compTask' = [compTask EXCEPT ![i] = "running"]
  /\ UNCHANGED <<shardVars, uuidCount, stage, sourceSize, shardTask, compAfter,
                 notShardRun>>

\* A compositor completes.
FinishCompositor(i) ==
  /\ shardPc = "split"
  /\ compTask[i] = "running"
  /\ compTask' = [compTask EXCEPT ![i] = "done"]
  /\ UNCHANGED <<shardVars, uuidCount, stage, sourceSize, shardTask, compAfter,
                 notShardRun>>

\* The jobs the stages are run on: short ones, with one or more sinks, all
\* different.
RunConfigs ==
  {c \in JobConfigs :
     /\ Get(c, "length", 0) <= MaxRunLength
     /\ Len(c["sinks"]) >= 1
     /\ c["sinks"] = [i \in 1..Len(c["sinks"]) |-> SinkUrl(i)]}

InitRun ==
  /\ stage \in StageTypes
  /\ sourceSize \in IF stage = "HttpInput" THEN {-1, 0, MaxRunLength}
                                            ELSE {0, MaxRunLength}
  /\ config \in RunConfigs
  /\ config0 = config
  /\ shards = <<>>
  /\ compositors = <<>>
  /\ shardPc = "ready"
  /\ uuidCount = 0
  /\ shardTask = <<>>
  /\ compTask = <<>>
  /\ compAfter = {}
  /\ GcsIdle
  /\ LintIdle
  /\ RowsIdle
  /\ TasksIdle
  /\ CallIdle
  /\ PushIdle

NextRun ==
  \/ StageRunSharded
  \/ StageRunUnsharded
  \/ \E j \in DOMAIN shardTask : StartShard(j) \/ FinishShard(j)
  \/ \E i \in DOMAIN compTask : StartCompositor(i) \/ FinishCompositor(i)

SpecRun == InitRun /\ [][NextRun]_vars

(***************************************************************************)
(* Gcs.ComposeObjects and SplitEvenly.                                      *)
(***************************************************************************)
MAX_COMPOSABLE_OBJECTS == 32
MAX_TOTAL_COMPOSABLE_OBJECTS == 1024

\* len(str(uuid.uuid4())): the length of the name of a temporary object.
UUID_STRING_LENGTH == 36

\* Mutant: the split size is rounded the other way (math.floor for the
\* inner math.ceil), so a chunk can exceed max_size.
SplitSizeFloor(arr_len, max_size) ==
  IF arr_len \div max_size = 0 THEN arr_len
  ELSE CeilDiv(arr_len, arr_len \div max_size)

\* split_size = int(math.ceil(float(arr_len) / math.ceil(float(arr_len) / max_size)))
SplitSize(arr_len, max_size) == CeilDiv(arr_len, CeilDiv(arr_len, max_size))

\* while idx < arr_len: yield arr[idx:idx + split_size]; idx += split_size
\* (idx counts from 1 here)
RECURSIVE SplitLoop(_, _, _)
SplitLoop(arr, idx, split_size) ==
  IF idx <= Len(arr)
  THEN <<SubSeq(arr, idx, Min(idx + split_size - 1, Len(arr)))>>
         \o SplitLoop(arr, idx + split_size, split_size)
  ELSE <<>>

\* SplitEvenly(arr, max_size): the chunks it yields, in order.
SplitEvenly(arr, max_size) ==
  IF Len(arr) < 1 THEN <<>>
  ELSE SplitLoop(arr, 1, SplitSize(Len(arr), max_size))

\* The bytes of the objects named, concatenated in the order given.
RECURSIVE ConcatContent(_, _)
ConcatContent(st, names) ==
  IF names = <<>> THEN <<>>
  ELSE st[Head(names)].content \o ConcatContent(st, Tail(names))

\* The component count of an object composed of the objects named.
RECURSIVE SumParts(_, _)
SumParts(st, names) ==
  IF names = <<>> THEN 0
  ELSE st[Head(names)].parts + SumParts(st, Tail(names))

\* objects().compose(destinationObject=dest, body={sourceObjects...})
StoreCompose(st, names, dest) ==
  [n \in DOMAIN st \cup {dest} |->
     IF n = dest
     THEN [content |-> ConcatContent(st, names), parts |-> SumParts(st, names)]
     ELSE st[n]]

\* Mutant: a delete request leaves the object in the bucket.
StoreDeleteKept(st, obj) == st

\* objects().delete(object=obj); a missing object is a 404, which
\* DeleteObject ignores.
StoreDelete(st, obj) == [n \in DOMAIN st \ {obj} |-> st[n]]

\* A frame of ComposeObjects(bucket, src_objects, dest_obj, content_type).
\*   pc: "start"  at the top of the function
\*       "chunks" in the for loop over SplitEvenly (idx: the next chunk)
\*       "delete" after the compose of tmp (idx: the next temp to delete)
Frame(src, dest) ==
  [src |-> src, dest |-> dest, pc |-> "start",
   chunks |-> <<>>, idx |-> 1, tmp |-> <<>>]

Top == stack[Len(stack)]

Pop == SubSeq(stack, 1, Len(stack) - 1)

SetTop(f) == [stack EXCEPT ![Len(stack)] = f]

\* What a return of the top frame leaves: the caller resumes, or the
\* outermost call has returned.
Return ==
  /\ stack' = Pop
  /\ gcsResult' = IF Len(stack) = 1 THEN "returned" ELSE gcsResult

\* Mutant: the groups of the middle tier are half as large.
ChunkLimitHalved(src_objects_len) ==
  IF src_objects_len <= MAX_TOTAL_COMPOSABLE_OBJECTS
  THEN MAX_COMPOSABLE_OBJECTS \div 2
  ELSE MAX_TOTAL_COMPOSABLE_OBJECTS

\* The chunk limit of the tier a call with this many sources takes.
ChunkLimit(src_objects_len) ==
  IF src_objects_len <= MAX_TOTAL_COMPOSABLE_OBJECTS
  THEN MAX_COMPOSABLE_OBJECTS
  ELSE MAX_TOTAL_COMPOSABLE_OBJECTS

\* elif src_objects_len <= self.MAX_COMPOSABLE_OBJECTS (after the < 1 test)
DirectlyComposable(src_objects_len) ==
  src_objects_len >= 1 /\ src_objects_len <= MAX_COMPOSABLE_OBJECTS

\* if src_objects_len < 1: return {}
ComposeNone ==
  /\ gcsResult = "running"
  /\ Top.pc = "start"
  /\ Len(Top.src) < 1
  /\ Return
  /\ UNCHANGED <<store, requests, chunkLog, srcObjects, gcsError, uuidCount,
                 notGcs>>

\* elif src_objects_len <= MAX_COMPOSABLE_OBJECTS: one compose request.
ComposeDirect ==
  /\ gcsResult = "running"
  /\ Top.pc = "start"
  /\ DirectlyComposable(Len(Top.src))
  /\ requests' = Append(requests, [op |-> "compose", dest |-> Top.dest,
                                   sources |-> Top.src])
  /\ store' = StoreCompose(store, Top.src, Top.dest)
  /\ Return
  /\ UNCHANGED <<chunkLog, srcObjects, gcsError, uuidCount, notGcs>>

\* The two recursive tiers enter their for loop over SplitEvenly.
ComposeSplit ==
  /\ gcsResult = "running"
  /\ Top.pc = "start"
  /\ Len(Top.src) >= 1
  /\ ~DirectlyComposable(Len(Top.src))
  /\ LET limit == ChunkLimit(Len(Top.src))
         chunks == SplitEvenly(Top.src, limit)
     IN  /\ stack' = SetTop([Top EXCEPT !.pc = "chunks", !.chunks = chunks])
         /\ chunkLog' = chunkLog \o
              [c \in 1..Len(chunks) |-> [n |-> Len(chunks[c]), max |-> limit]]
  /\ UNCHANGED <<store, requests, srcObjects, gcsResult, gcsError, uuidCount,
                 notGcs>>

\* tmp.append(UrlToBucketAndName(UrlCreator(bucket)())[1])
\* self.ComposeObjects(bucket, chunk, tmp[-1], content_type)
ComposeChunk ==
  /\ gcsResult = "running"
  /\ Top.pc = "chunks"
  /\ Top.idx <= Len(Top.chunks)
  /\ LET t == UrlToBucketAndName(UrlCreator("bucket", Name(0, 0),
                                            uuidCount + 1))[2]
     IN  stack' = Append(SetTop([Top EXCEPT !.idx = @ + 1,
                                            !.tmp = Append(@, t)]),
                         Frame(Top.chunks[Top.idx], t))
  /\ uuidCount' = uuidCount + 1
  /\ UNCHANGED <<store, requests, chunkLog, srcObjects, gcsResult, gcsError,
                 notGcs>>

\* r = self.ComposeObjects(bucket, tmp, dest_obj, content_type), in the tier
\* for MAX_COMPOSABLE_OBJECTS < len <= MAX_TOTAL_COMPOSABLE_OBJECTS.
ComposeTemps ==
  /\ gcsResult = "running"
  /\ Top.pc = "chunks"
  /\ Top.idx > Len(Top.chunks)
  /\ Len(Top.src) <= MAX_TOTAL_COMPOSABLE_OBJECTS
  /\ stack' = Append(SetTop([Top EXCEPT !.pc = "delete", !.idx = 1]),
                     Frame(Top.tmp, Top.dest))
  /\ UNCHANGED <<store, requests, chunkLog, srcObjects, gcsResult, gcsError,
                 uuidCount, notGcs>>

\* for t in tmp: self.DeleteObject(bucket, t)
DeleteTemp ==
  /\ gcsResult = "running"
  /\ Top.pc = "delete"
  /\ Top.idx <= Len(Top.tmp)
  /\ requests' = Append(requests, [op |-> "delete", dest |-> Top.tmp[Top.idx],
                                   sources |-> <<>>])
  /\ store' = StoreDelete(store, Top.tmp[Top.idx])
  /\ stack' = SetTop([Top EXCEPT !.idx = @ + 1])
  /\ UNCHANGED <<chunkLog, srcObjects, gcsResult, gcsError, uuidCount, notGcs>>

\* return r
ComposeReturn ==
  /\ gcsResult = "running"
  /\ Top.pc = "delete"
  /\ Top.idx > Len(Top.tmp)
  /\ Return
  /\ UNCHANGED <<store, requests, chunkLog, srcObjects, gcsError, uuidCount,
                 notGcs>>

\* The tier for len > MAX_TOTAL_COMPOSABLE_OBJECTS, after its chunks:
\*   for dest_obj in tmp: self.CompressObject(self.MakeUrl(*dest_obj))
\* dest_obj is the name of a temporary object, a string; *dest_obj passes
\* each of its characters as an argument and MakeUrl(bucket, obj) takes two,
\* so the first pass of the loop raises TypeError, which nothing catches.
CompressRaises ==
  /\ gcsResult = "running"
  /\ Top.pc = "chunks"
  /\ Top.idx > Len(Top.chunks)
  /\ Len(Top.src) > MAX_TOTAL_COMPOSABLE_OBJECTS
  /\ Len(Top.tmp) >= 1
  /\ UUID_STRING_LENGTH # 2
  /\ stack' = <<>>
  /\ gcsResult' = "raised"
  /\ gcsError' = "TypeError"
  /\ UNCHANGED <<store, requests, chunkLog, srcObjects, uuidCount, notGcs>>

\* The numbers of sources the model composes: a few, and those around the
\* two limits.
SourceCounts ==
  (0..SmallSources)
    \cup ((MAX_COMPOSABLE_OBJECTS - 1)..(MAX_COMPOSABLE_OBJECTS + ExtraSources))
    \cup ((MAX_TOTAL_COMPOSABLE_OBJECTS - 1)
            ..(MAX_TOTAL_COMPOSABLE_OBJECTS + ExtraSources))

\* The k-th source object and the destination object.
SourceName(k) == Name(k, 0)
DestName == Name(0, 0)

\* storage.ComposeObjects(bucket, src_objects, dest_obj, content_type) over
\* N single-part sources that exist in the bucket, source k holding <<k>>.
InitGcs ==
  /\ \E n \in SourceCounts :
       /\ srcObjects = [k \in 1..n |-> SourceName(k)]
       /\ store = [nm \in {SourceName(k) : k \in 1..n} |->
                     [content |-> <<nm[1]>>, parts |-> 1]]
  /\ stack = <<Frame(srcObjects, DestName)>>
  /\ requests = <<>>
  /\ chunkLog = <<>>
  /\ gcsResult = "running"
  /\ gcsError = "none"
  /\ uuidCount = 0
  /\ ShardIdle
  /\ RunIdle
  /\ LintIdle
  /\ RowsIdle
  /\ TasksIdle
  /\ CallIdle
  /\ PushIdle

NextGcs ==
  \/ ComposeNone
  \/ ComposeDirect
  \/ ComposeSplit
  \/ ComposeChunk
  \/ ComposeTemps
  \/ DeleteTemp
  \/ ComposeReturn
  \/ CompressRaises

SpecGcs == InitGcs /\ [][NextGcs]_vars

\* (dest_bucket, dest_obj) = gcs.Gcs.UrlToBucketAndName(config['sinks'][0])
DestOf(compositor) == UrlToBucketAndName(compositor.sinks[1])

\* src_objects = [gcs.Gcs.UrlToBucketAndName(s)[1] for s in sources]
SrcObjects(sources) ==
  [k \in 1..Len(sources) |-> UrlToBucketAndName(sources[k])[2]]

(***************************************************************************)
(* GcsCompositor.run around a ComposeObjects call whose requests to the     *)
(* object store can fail.  callArgs is the stage config, callPc the         *)
(* position of run() ("ready" while ComposeObjects runs) and callResult the *)
(* sources of the GcsDeleter it yielded.                                    *)
(***************************************************************************)
\* Mutant: the error of a compose request is swallowed and the call goes on.
ComposeFailsSwallowed ==
  /\ gcsResult = "running"
  /\ Top.pc = "start"
  /\ DirectlyComposable(Len(Top.src))
  /\ requests' = Append(requests, [op |-> "compose", dest |-> Top.dest,
                                   sources |-> Top.src])
  /\ gcsError' = "HttpError: compose"
  /\ Return
  /\ UNCHANGED <<store, chunkLog, srcObjects, uuidCount, notGcs>>

\* req.execute() of a compose request raises: nothing in ComposeObjects
\* catches it, at any depth.
ComposeFails ==
  /\ gcsResult = "running"
  /\ Top.pc = "start"
  /\ DirectlyComposable(Len(Top.src))
  /\ requests' = Append(requests, [op |-> "compose", dest |-> Top.dest,
                                   sources |-> Top.src])
  /\ stack' = <<>>
  /\ gcsResult' = "raised"
  /\ gcsError' = "HttpError: compose"
  /\ UNCHANGED <<store, chunkLog, srcObjects, uuidCount, notGcs>>

\* DeleteObject: the delete request raises an HttpError that is not a 404,
\* and DeleteObject raises it again.
DeleteFails ==
  /\ gcsResult = "running"
  /\ Top.pc = "delete"
  /\ Top.idx <= Len(Top.tmp)
  /\ requests' = Append(requests, [op |-> "delete", dest |-> Top.tmp[Top.idx],
                                   sources |-> <<>>])
  /\ stack' = <<>>
  /\ gcsResult' = "raised"
  /\ gcsError' = "HttpError: delete"
  /\ UNCHANGED <<store, chunkLog, srcObjects, uuidCount, notGcs>>

\* if config.get('deleteSources', False): yield gcsdeleter.GcsDeleter(...)
GcsCompositorReturns ==
  /\ callPc = "ready"
  /\ gcsResult = "returned"
  /\ callResult' = IF Get(callArgs, "deleteSources", FALSE)
                   THEN callArgs["sources"] ELSE <<>>
  /\ callPc' = "returned"
  /\ UNCHANGED <<callArgs, gcsVars, notCall>>

\* The exception that left ComposeObjects leaves run().
GcsCompositorFails ==
  /\ callPc = "ready"
  /\ gcsResult = "raised"
  /\ callPc' = "raised"
  /\ UNCHANGED <<callArgs, callResult, gcsVars, notCall>>

InitGcsErr ==
  /\ \E n \in SourceCounts :
       /\ srcObjects = [k \in 1..n |-> SourceName(k)]
       /\ store = [nm \in {SourceName(k) : k \in 1..n} |->
                     [content |-> <<nm[1]>>, parts |-> 1]]
  /\ \E d \in BOOLEAN :
       callArgs = [sources       |-> [k \in 1..Len(srcObjects) |->
                                        MakeUrl("bucket", srcObjects[k])],
                   sinks         |-> <<MakeUrl("bucket", DestName)>>,
                   contentType   |-> DEFAULT_CONTENT_TYPE,
                   deleteSources |-> d]
  /\ callResult = <<>>
  /\ callPc = "ready"
  /\ stack = <<Frame(SrcObjects(callArgs.sources), DestOf(callArgs)[2])>>
  /\ requests = <<>>
  /\ chunkLog = <<>>
  /\ gcsResult = "running"
  /\ gcsError = "none"
  /\ uuidCount = 0
  /\ ShardIdle
  /\ RunIdle
  /\ LintIdle
  /\ RowsIdle
  /\ TasksIdle
  /\ PushIdle

NextGcsErr ==
  \/ NextGcs
  \/ ComposeFails
  \/ DeleteFails
  \/ GcsCompositorReturns
  \/ GcsCompositorFails

SpecGcsErr == InitGcsErr /\ [][NextGcsErr]_vars

(***************************************************************************)
(* The tasks of one ShardStage call: the shards, then (After all of them)   *)
(* the compositors, each a GcsCompositor.run whose ComposeObjects call      *)
(* sends its compose requests one after the other.  The compositors are     *)
(* yielded side by side, so their steps interleave.  The shard stages write *)
(* the sinks of their config; their steps are not modelled here.            *)
(***************************************************************************)
\* The frame of the ComposeObjects call of a compositor that is in its for
\* loop over SplitEvenly, or has returned.
Merge(pc, chunks, idx, tmp) ==
  [pc |-> pc, chunks |-> chunks, idx |-> idx, tmp |-> tmp]

\* A compose request of compositor i: the object it writes.
ComposeRequest(i, bucket, obj) ==
  [task |-> <<"compositor", i>>, url |-> MakeUrl(bucket, obj)]

\* with pipeline.After(*[(yield shard) for shard in shards]): every shard
\* has completed and the compositors are yielded.
AllShardsComplete ==
  /\ shardPc = "split"
  /\ shardPc' = "composing"
  /\ UNCHANGED <<config, config0, shards, compositors, uuidCount, runVars,
                 notShardRun>>

\* GcsCompositor.run of compositor i with at most MAX_COMPOSABLE_OBJECTS
\* sources: ComposeObjects sends one compose request and returns.
CompositorComposeDirect(i) ==
  /\ shardPc = "composing"
  /\ i \notin DOMAIN merges
  /\ DirectlyComposable(Len(SrcObjects(compositors[i].sources)))
  /\ writes' = writes \cup
       {ComposeRequest(i, DestOf(compositors[i])[1], DestOf(compositors[i])[2])}
  /\ merges' = merges @@ (i :> Merge("done", <<>>, 1, <<>>))
  /\ UNCHANGED <<shardVars, uuidCount, notTasks>>

\* GcsCompositor.run of compositor i with more sources than that:
\* ComposeObjects enters its for loop over SplitEvenly.
CompositorComposeSplit(i) ==
  /\ shardPc = "composing"
  /\ i \notin DOMAIN merges
  /\ LET src_objects == SrcObjects(compositors[i].sources)
     IN  /\ Len(src_objects) > MAX_COMPOSABLE_OBJECTS
         /\ Len(src_objects) <= MAX_TOTAL_COMPOSABLE_OBJECTS
         /\ merges' = merges @@
              (i :> Merge("chunks",
                          SplitEvenly(src_objects, ChunkLimit(Len(src_objects))),
                          1, <<>>))
  /\ UNCHANGED <<shardVars, uuidCount, notTasks, writes>>

\* tmp.append(UrlToBucketAndName(UrlCreator(bucket)())[1])
\* self.ComposeObjects(bucket, chunk, tmp[-1], content_type): the chunk has
\* at most MAX_COMPOSABLE_OBJECTS names, so the call is one compose request.
CompositorGroupMerge(i) ==
  /\ shardPc = "composing"
  /\ i \in DOMAIN merges
  /\ merges[i].pc = "chunks"
  /\ merges[i].idx <= Len(merges[i].chunks)
  /\ DirectlyComposable(Len(merges[i].chunks[merges[i].idx]))
  /\ LET bucket == DestOf(compositors[i])[1]
         t == UrlToBucketAndName(UrlCreator(bucket, Name(0, 0),
                                            uuidCount + 1))[2]
     IN  /\ writes' = writes \cup {ComposeRequest(i, bucket, t)}
         /\ merges' = [merges EXCEPT ![i].idx = @ + 1,
                                     ![i].tmp = Append(@, t)]
  /\ uuidCount' = uuidCount + 1
  /\ UNCHANGED <<shardVars, notTasks>>

\* r = self.ComposeObjects(bucket, tmp, dest_obj, content_type); the
\* temporary objects are deleted and r returned.
CompositorFinalMerge(i) ==
  /\ shardPc = "composing"
  /\ i \in DOMAIN merges
  /\ merges[i].pc = "chunks"
  /\ merges[i].idx > Len(merges[i].chunks)
  /\ DirectlyComposable(Len(merges[i].tmp))
  /\ writes' = writes \cup
       {ComposeRequest(i, DestOf(compositors[i])[1], DestOf(compositors[i])[2])}
  /\ merges' = [merges EXCEPT ![i].pc = "done"]
  /\ UNCHANGED <<shardVars, uuidCount, notTasks>>

\* The lengths of the jobs whose tasks are followed: a few shards, and more
\* shards than one compose request takes.
TaskLengths ==
  (2..(SmallSources + 1))
    \cup ((MAX_COMPOSABLE_OBJECTS + 1)..(MAX_COMPOSABLE_OBJECTS + ExtraSources))

TaskConfigs ==
  {c \in JobConfigs :
     /\ DOMAIN c = {"length", "shardSize", "sinks"}
     /\ c["shardSize"] \in 1..2}
    \cup
  {("length" :> ln) @@ ("shardSize" :> 1) @@ ("sinks" :> sinks) :
     ln \in TaskLengths, sinks \in SinkLists}

InitTasks ==
  /\ config \in TaskConfigs
  /\ config0 = config
  /\ shards = <<>>
  /\ compositors = <<>>
  /\ shardPc = "ready"
  /\ uuidCount = 0
  /\ merges = <<>>
  /\ writes = {}
  /\ RunIdle
  /\ GcsIdle
  /\ LintIdle
  /\ RowsIdle
  /\ CallIdle
  /\ PushIdle

NextTasks ==
  \/ ShardStageSplit
  \/ ShardStageUnsplit
  \/ AllShardsComplete
  \/ \E i \in DOMAIN compositors :
       \/ CompositorComposeDirect(i)
       \/ CompositorComposeSplit(i)
       \/ CompositorGroupMerge(i)
       \/ CompositorFinalMerge(i)

SpecTasks == InitTasks /\ [][NextTasks]_vars

(***************************************************************************)
(* Properties of ShardStage, checked under SpecShard.                       *)
(***************************************************************************)
ShardLengths == [j \in 1..Len(shards) |-> shards[j]["length"]]

\* C1: for a job with length > shardSize >= 1, any start >= 0 and at least
\* one sink, the shards returned by ShardStage, in list order, start at the
\* job's start, each begins where the previous one ends, each has a length
\* > 0, and their lengths sum to the job's length: they partition
\* [start, start+length) in ascending order with no gap and no overlap.
C1_ShardsPartitionRange ==
  shardPc = "split" =>
    /\ Len(shards) >= 1
    /\ shards[1]["start"] = Get(config0, "start", 0)
    /\ \A j \in 1..Len(shards) - 1 :
         shards[j + 1]["start"] = shards[j]["start"] + shards[j]["length"]
    /\ \A j \in 1..Len(shards) : shards[j]["length"] > 0
    /\ SumSeq(ShardLengths) = config0["length"]

\* C1 witness: a job starting past 0 split into three or more shards, the
\* last one shorter than the first.
C1_Witness ==
  /\ shardPc = "split"
  /\ Get(config0, "start", 0) > 0
  /\ Len(shards) >= 3
  /\ shards[Len(shards)]["length"] < shards[1]["length"]

\* C10 as stated: the lengths of the shards returned by ShardStage differ
\* pairwise by at most 1, the last shard included.
C10_LengthsWithinOne ==
  shardPc = "split" =>
    \A i, j \in 1..Len(shards) :
      shards[i]["length"] - shards[j]["length"] <= 1

\* C10 amended: all shards but the last have the same length, the adjusted
\* shard size ceil(length / ceil(length / shardSize)); the last shard is at
\* least 1 long and shorter than the others by at most (number of shards - 1).
C10_LengthsEqualButLast ==
  shardPc = "split" =>
    LET n == Len(shards)
        size == CeilDiv(config0["length"],
                        CeilDiv(config0["length"], config0["shardSize"]))
    IN  /\ \A j \in 1..n - 1 : shards[j]["length"] = size
        /\ shards[n]["length"] >= 1
        /\ shards[n]["length"] <= size
        /\ size - shards[n]["length"] <= n - 1

\* C10 witness: a split whose last shard is shorter than the others by 2 or
\* more.
C10_Witness ==
  /\ shardPc = "split"
  /\ Len(shards) >= 3
  /\ shards[1]["length"] - shards[Len(shards)]["length"] >= 2

\* C11: for a job with length > shardSize >= 1, ShardStage returns exactly
\* ceil(length / shardSize) shards, the count computed from the shardSize
\* the caller supplied, and no returned shard is longer than that shardSize.
C11_MinimumShardCount ==
  shardPc = "split" =>
    /\ Len(shards) = CeilDiv(config0["length"], config0["shardSize"])
    /\ \A j \in 1..Len(shards) : shards[j]["length"] <= config0["shardSize"]

\* C11 witness: a split into three or more shards whose lengths are all
\* below the shardSize the caller supplied (the size was rebalanced).
C11_Witness ==
  /\ shardPc = "split"
  /\ Len(shards) >= 3
  /\ \A j \in 1..Len(shards) : shards[j]["length"] < config0["shardSize"]

\* C12: ShardStage returns ([], []) whenever shardSize < 1 or
\* length <= shardSize (a missing length counting as 0, a missing shardSize
\* as -1); in every other case, for a job with at least one sink, it returns
\* a non-empty shard list together with a non-empty compositor list.
C12_BothEmptyOrBothNonEmpty ==
  shardPc \in {"split", "unsplit"} =>
    LET length == IF "length" \in DOMAIN config0 THEN config0["length"] ELSE 0
        shard_size == IF "shardSize" \in DOMAIN config0
                      THEN config0["shardSize"] ELSE -1
    IN  IF shard_size < 1 \/ length <= shard_size
        THEN shards = <<>> /\ compositors = <<>>
        ELSE Len(config0["sinks"]) >= 1 =>
               shards # <<>> /\ compositors # <<>>

\* C12 witness: a job exactly one shardSize long, with a sink, came back
\* unsplit.
C12_Witness ==
  /\ shardPc = "unsplit"
  /\ "length" \in DOMAIN config0
  /\ "shardSize" \in DOMAIN config0
  /\ config0["length"] = config0["shardSize"]
  /\ config0["length"] >= 1
  /\ Len(config0["sinks"]) >= 1

\* C13: a job with k sinks split into n shards gives exactly k compositors;
\* compositor i has the original sink i as its only destination and exactly
\* n sources, the j-th being the temporary location shard j was given for
\* its sink i (so the sources are in shard order).
C13_CompositorPerSink ==
  shardPc = "split" =>
    /\ Len(compositors) = Len(config0["sinks"])
    /\ \A i \in 1..Len(compositors) :
         /\ compositors[i].sinks = <<config0["sinks"][i]>>
         /\ Len(compositors[i].sources) = Len(shards)
         /\ \A j \in 1..Len(shards) :
              compositors[i].sources[j] = shards[j]["sinks"][i]

\* C13 witness: two sinks and three or more shards, whose temporary
\* locations for the second sink all differ.
C13_Witness ==
  /\ shardPc = "split"
  /\ Len(config0["sinks"]) = 2
  /\ Len(shards) >= 3
  /\ Len(compositors) = 2
  /\ \A j, k \in 1..Len(shards) :
       j # k => compositors[2].sources[j] # compositors[2].sources[k]

\* C14: after the ShardStage call, split or not, every field of the config
\* object passed in has the value it had before the call.
C14_ConfigUnchanged ==
  shardPc \in {"split", "unsplit"} => config = config0

\* The objects the shard tasks write: the sinks of their configs.
ShardWrites ==
  {[task |-> <<"shard", j>>, url |-> shards[j]["sinks"][i]] :
     j \in 1..Len(shards), i \in 1..Len(config0["sinks"])}

\* Shard tasks run side by side, and so do the compositors; a compositor
\* starts After every shard, and the compose requests of one compositor
\* follow one another.
MayRunConcurrently(t1, t2) == t1 # t2 /\ t1[1] = t2[1]

\* C15: among the shard tasks of one ShardStage call and the group and
\* final merges of its compositors, no two tasks that may run concurrently
\* write the same object: the shard sinks and temporary merge destinations
\* are names distinct from each other and from the original sinks, and each
\* original sink is written by exactly one compositor.
C15_NoSharedWrite ==
  LET all == ShardWrites \cup writes
      originals == {config0["sinks"][i] : i \in 1..Len(config0["sinks"])}
  IN  /\ \A w1, w2 \in all :
           MayRunConcurrently(w1.task, w2.task) => w1.url # w2.url
      /\ \A w1, w2 \in all :
           (w1.url = w2.url /\ w1.url \notin originals) => w1.task = w2.task
      /\ \A w \in ShardWrites : w.url \notin originals
      /\ \A w1, w2 \in writes :
           (w1.url = w2.url /\ w1.url \in originals) => w1.task = w2.task

(***************************************************************************)
(* Properties of the sharding stages' run(), checked under SpecRun.         *)
(***************************************************************************)
\* C3: in every run of a sharding stage whose ShardStage call returns shards
\* and compositors, no compositor task has started while a shard task of
\* that call is not yet complete, whatever the order in which the shard
\* tasks run and finish.
C3_CompositorsAfterAllShards ==
  \A i \in DOMAIN compTask :
    compTask[i] # "pending" => \A j \in DOMAIN shardTask : shardTask[j] = "done"

\* C3 witness: a compositor is running after three or more shards finished.
C3_Witness ==
  /\ Len(shardTask) >= 3
  /\ \E i \in DOMAIN compTask : compTask[i] = "running"
  /\ \A j \in DOMAIN shardTask : shardTask[j] = "done"

(***************************************************************************)
(* Properties of Gcs.ComposeObjects, checked under SpecGcs.                 *)
(***************************************************************************)
GcsFinished == gcsResult \in {"returned", "raised"}

\* The contents of the N sources concatenated in the order they were given.
SourcesConcatenated == [k \in 1..Len(srcObjects) |-> k]

IsTemp(nm) == nm[2] > 0

\* C2: for every number of sources N >= 1, in all three tiers alike (N up to
\* MAX_COMPOSABLE_OBJECTS, up to MAX_TOTAL_COMPOSABLE_OBJECTS, and beyond),
\* a ComposeObjects call whose store requests all succeed returns
\* successfully, and the object named dest_obj then holds the contents of
\* all N sources concatenated in the order they were given.
C2_DestHoldsConcatenation ==
  (GcsFinished /\ Len(srcObjects) >= 1) =>
    /\ gcsResult = "returned"
    /\ DestName \in DOMAIN store
    /\ store[DestName].content = SourcesConcatenated

\* C4: every chunk yielded by SplitEvenly(arr, max_size) has between 1 and
\* max_size items, and every compose request ComposeObjects sends, at any
\* recursion depth and for any number of sources, names between 1 and
\* MAX_COMPOSABLE_OBJECTS source objects.
C4_ChunksAndRequestsBounded ==
  /\ \A c \in DOMAIN chunkLog :
       chunkLog[c].n >= 1 /\ chunkLog[c].n <= chunkLog[c].max
  /\ \A r \in DOMAIN requests :
       requests[r].op = "compose" =>
         /\ Len(requests[r].sources) >= 1
         /\ Len(requests[r].sources) <= MAX_COMPOSABLE_OBJECTS

\* C4 witness: a run over more than MAX_TOTAL_COMPOSABLE_OBJECTS sources, two
\* calls deep, has sent a compose request naming exactly
\* MAX_COMPOSABLE_OBJECTS sources.
C4_Witness ==
  /\ Len(srcObjects) > MAX_TOTAL_COMPOSABLE_OBJECTS
  /\ Len(stack) >= 2
  /\ \E c \in DOMAIN chunkLog : chunkLog[c].max = MAX_TOTAL_COMPOSABLE_OBJECTS
  /\ \E r \in DOMAIN requests :
       /\ requests[r].op = "compose"
       /\ Len(requests[r].sources) = MAX_COMPOSABLE_OBJECTS

\* C5: in any ComposeObjects run over N single-part sources, N possibly
\* above MAX_TOTAL_COMPOSABLE_OBJECTS, no object written by a compose request
\* has a component count above MAX_TOTAL_COMPOSABLE_OBJECTS, and a run of the
\* over-limit tier flattens each group's temporary object (re-written as a
\* single-part object, the composite original removed) and then composes the
\* flattened objects into the destination.
C5_FlattenedBeforeFinalCompose ==
  /\ \A nm \in DOMAIN store : store[nm].parts <= MAX_TOTAL_COMPOSABLE_OBJECTS
  /\ (GcsFinished /\ Len(srcObjects) > MAX_TOTAL_COMPOSABLE_OBJECTS) =>
       /\ \A nm \in DOMAIN store : IsTemp(nm) => store[nm].parts = 1
       /\ DestName \in DOMAIN store

(***************************************************************************)
(* Properties of the requests of Gcs.ComposeObjects, checked under SpecGcs  *)
(* (every request succeeds) and SpecGcsErr (a request can fail).            *)
(***************************************************************************)
ComposeRequests == SelectSeq(requests, LAMBDA r : r.op = "compose")

SourcesOf(r) == {r.sources[k] : k \in 1..Len(r.sources)}

\* The sources of the first g compose requests, one after the other.
RECURSIVE GroupSources(_, _)
GroupSources(reqs, g) ==
  IF g = 0 THEN <<>> ELSE GroupSources(reqs, g - 1) \o reqs[g].sources

\* The request that raised, if one did: it is the last one sent.
FailedRequest ==
  IF gcsError \in {"HttpError: compose", "HttpError: delete"}
  THEN Len(requests) ELSE 0

\* C21: if a compose request made during ComposeObjects fails, it is the
\* last request ComposeObjects sends (no further request, no second attempt
\* of the failed one), the error leaves ComposeObjects, GcsCompositor.run
\* fails without yielding its GcsDeleter, and the sources it was given are
\* still in the bucket.
C21_ComposeFailureStopsAndPropagates ==
  gcsError = "HttpError: compose" =>
    /\ gcsResult = "raised"
    /\ requests[Len(requests)].op = "compose"
    /\ \A k \in 1..(Len(requests) - 1) :
         requests[k] # requests[Len(requests)]
    /\ callPc \in {"ready", "raised"}
    /\ callResult = <<>>
    /\ \A k \in 1..Len(srcObjects) : srcObjects[k] \in DOMAIN store

\* A compose of a group of 34 sources succeeded, a later one failed, and the
\* run of a compositor told to delete its sources has failed.
C21_Witness ==
  /\ gcsError = "HttpError: compose"
  /\ callPc = "raised"
  /\ callArgs["deleteSources"]
  /\ Len(srcObjects) > MAX_COMPOSABLE_OBJECTS
  /\ Len(requests) >= 2

\* C22: a ComposeObjects call that returns has sent no request and written
\* no destination for N = 0 sources; exactly one compose request, of all
\* sources in order into the destination, for 1 <= N <= L; and for
\* L < N <= MAX_TOTAL_COMPOSABLE_OBJECTS exactly ceil(N/L) group requests
\* over consecutive chunks of the sources, each into a temporary object of
\* its own, followed by one request composing these temporaries in group
\* order into the destination (L = MAX_COMPOSABLE_OBJECTS).
C22_RequestsOfMergeTree ==
  gcsResult = "returned" =>
    LET N == Len(srcObjects)
        L == MAX_COMPOSABLE_OBJECTS
        g == CeilDiv(N, L)
        reqs == ComposeRequests
    IN  /\ N = 0 => (requests = <<>> /\ DestName \notin DOMAIN store)
        /\ (1 <= N /\ N <= L) =>
             reqs = <<[op |-> "compose", dest |-> DestName,
                       sources |-> srcObjects]>>
        /\ (L < N /\ N <= MAX_TOTAL_COMPOSABLE_OBJECTS) =>
             /\ Len(reqs) = g + 1
             /\ GroupSources(reqs, g) = srcObjects
             /\ \A k \in 1..g :
                  /\ IsTemp(reqs[k].dest)
                  /\ Len(reqs[k].sources) \in 1..L
                  /\ \A j \in 1..g : j # k => reqs[j].dest # reqs[k].dest
             /\ reqs[g + 1] = [op |-> "compose", dest |-> DestName,
                               sources |-> [k \in 1..g |-> reqs[k].dest]]

\* A call with more than L sources has returned after its group requests
\* and the request over their temporaries.
C22_Witness ==
  /\ gcsResult = "returned"
  /\ Len(srcObjects) > MAX_COMPOSABLE_OBJECTS
  /\ Len(ComposeRequests) = CeilDiv(Len(srcObjects), MAX_COMPOSABLE_OBJECTS) + 1

C24_DeleteFailureIgnored ==
  gcsError = "HttpError: delete" => gcsResult # "raised"

(***************************************************************************)
(* JSON documents.  A parsed value x is a pair: x[1] is its Python type     *)
(* (None, bool, number, unicode string, list or dict) and x[2] the value.   *)
(* Raise(e) stands for an evaluation that raised exception e instead of     *)
(* producing a value.                                                       *)
(***************************************************************************)
JNull == <<"null", "None">>
JBool(b) == <<"bool", b>>
JNum(n) == <<"num", n>>
JStr(s) == <<"str", s>>
JList(items) == <<"list", items>>
JDict(d) == <<"dict", d>>
Raise(e) == <<"raise", e>>

EmptyDict == JDict(<<>>)
Raised(x) == x[1] = "raise"

\* Python truth value of a parsed value (what `if x:` and `x or y` test).
Truthy(x) ==
  CASE x[1] = "null" -> FALSE
    [] x[1] = "bool" -> x[2]
    [] x[1] = "num" -> x[2] # 0
    [] x[1] = "str" -> x[2] # ""
    [] x[1] = "list" -> Len(x[2]) > 0
    [] x[1] = "dict" -> DOMAIN x[2] # {}

\* `key in s` for strings: key is a substring of s.
IsSubstring(key, s) ==
  \E i \in 1..(Len(s) - Len(key) + 1) : SubSeq(s, i, i + Len(key) - 1) = key

\* s.startswith(prefix)
StartsWith(s, prefix) ==
  Len(s) >= Len(prefix) /\ SubSeq(s, 1, Len(prefix)) = prefix

\* s[i - 1]: the i-th character of s
Char(s, i) == SubSeq(s, i, i)

UpperCase == "ABCDEFGHIJKLMNOPQRSTUVWXYZ"
LowerCase == "abcdefghijklmnopqrstuvwxyz"

LowerChar(c) ==
  IF \E i \in 1..Len(UpperCase) : Char(UpperCase, i) = c
  THEN Char(LowerCase, CHOOSE i \in 1..Len(UpperCase) : Char(UpperCase, i) = c)
  ELSE c

\* s.lower()
RECURSIVE ToLower(_)
ToLower(s) == IF s = "" THEN "" ELSE LowerChar(Head(s)) \o ToLower(Tail(s))

Elements(items) == {items[i] : i \in DOMAIN items}

\* `key in x`; TypeError for a value that is not a container.
Contains(x, key) ==
  CASE x[1] = "dict" -> JBool(key \in DOMAIN x[2])
    [] x[1] = "list" -> JBool(JStr(key) \in Elements(x[2]))
    [] x[1] = "str" -> JBool(IsSubstring(key, x[2]))
    [] OTHER -> Raise("TypeError")

\* x.get(key, default); only a dict has the method.
DictGet(x, key, default) ==
  IF x[1] # "dict" THEN Raise("AttributeError")
  ELSE IF key \in DOMAIN x[2] THEN x[2][key] ELSE default

\* d[key] = value on a dict.
DictSet(d, key, value) ==
  JDict([k \in DOMAIN d[2] \cup {key} |-> IF k = key THEN value ELSE d[2][k]])

(***************************************************************************)
(* UpdateNestedDict(master, to_add): every key of to_add that master lacks  *)
(* is added; a key master has is descended into when to_add holds a dict    *)
(* there, and left alone otherwise.  The membership test, the item          *)
(* assignment and the subscript of a master that is no dict raise as        *)
(* Python raises them.                                                      *)
(***************************************************************************)
RECURSIVE UpdateNestedDict(_, _)
UpdateNestedDict(master, to_add) ==
  IF to_add[1] # "dict" THEN Raise("AttributeError")
  ELSE IF DOMAIN to_add[2] = {} THEN master
  ELSE IF master[1] = "dict" THEN
    LET keys == DOMAIN to_add[2]
        descend == {k \in keys : k \in DOMAIN master[2] /\ to_add[2][k][1] = "dict"}
        sub == [k \in descend |-> UpdateNestedDict(master[2][k], to_add[2][k])]
    IN IF \E k \in descend : Raised(sub[k])
       THEN sub[CHOOSE k \in descend : Raised(sub[k])]
       ELSE JDict([k \in DOMAIN master[2] \cup keys |->
                     IF k \notin DOMAIN master[2] THEN to_add[2][k]
                     ELSE IF k \in descend THEN sub[k]
                     ELSE master[2][k]])
  ELSE IF master[1] \in {"list", "str"} THEN
    \* a key that is "in" the list or string is skipped unless to_add holds
    \* a dict there; anything else needs master[key], which raises
    IF \A k \in DOMAIN to_add[2] :
         Contains(master, k) = JBool(TRUE) /\ to_add[2][k][1] # "dict"
    THEN master
    ELSE Raise("TypeError")
  ELSE Raise("TypeError")

\* The dicts over some of `keys` with values from `values`.
DictsOver(keys, values) ==
  {JDict(d) : d \in UNION {[ks -> values] : ks \in SUBSET keys}}

\* The values of the merged documents: scalars, and dicts of scalars.
MergeValues(scalars) == scalars \cup DictsOver({"b", "c"}, scalars)

\* The master documents (as in testUpdateNestedDict: {'h': {'b': 1}},
\* {'h': 'j'}) and the documents merged into them ({'h': {'c': 2}},
\* {'z': {'c': 2}}, {'h': 'k'}).
MasterDicts == DictsOver({"h", "z"}, MergeValues({JNum(1), JStr("j")}))
ToAddDicts == DictsOver({"h", "z"}, MergeValues({JNum(2), JStr("k")}))

\* linter.UpdateNestedDict(master, to_add) returns.
UpdateNestedDictReturns ==
  /\ callPc = "ready"
  /\ ~Raised(UpdateNestedDict(callArgs[1], callArgs[2]))
  /\ callResult' = UpdateNestedDict(callArgs[1], callArgs[2])
  /\ callPc' = "returned"
  /\ UNCHANGED <<callArgs, notCall>>

\* linter.UpdateNestedDict(master, to_add) raises.
UpdateNestedDictRaises ==
  /\ callPc = "ready"
  /\ Raised(UpdateNestedDict(callArgs[1], callArgs[2]))
  /\ callResult' = UpdateNestedDict(callArgs[1], callArgs[2])
  /\ callPc' = "raised"
  /\ UNCHANGED <<callArgs, notCall>>

InitMerge ==
  /\ callArgs \in MasterDicts \X ToAddDicts
  /\ callResult = <<>>
  /\ callPc = "ready"
  /\ uuidCount = 0
  /\ ShardIdle
  /\ RunIdle
  /\ GcsIdle
  /\ LintIdle
  /\ RowsIdle
  /\ TasksIdle
  /\ PushIdle

NextMerge == UpdateNestedDictReturns \/ UpdateNestedDictRaises

SpecMerge == InitMerge /\ [][NextMerge]_vars

\* Every value of master, at any depth, is in result unchanged.
RECURSIVE Preserved(_, _)
Preserved(master, result) ==
  IF master[1] # "dict" THEN result = master
  ELSE /\ result[1] = "dict"
       /\ \A k \in DOMAIN master[2] :
            k \in DOMAIN result[2] /\ Preserved(master[2][k], result[2][k])

\* Every key path of to_add that master lacks is in result, with to_add's
\* value.
RECURSIVE Filled(_, _, _)
Filled(master, to_add, result) ==
  \A k \in DOMAIN to_add[2] :
    IF k \notin DOMAIN master[2]
    THEN k \in DOMAIN result[2] /\ result[2][k] = to_add[2][k]
    ELSE (master[2][k][1] = "dict" /\ to_add[2][k][1] = "dict") =>
           Filled(master[2][k], to_add[2][k], result[2][k])

\* C16: UpdateNestedDict(master, to_add) completes without error for all
\* nested mappings, a scalar of master facing a mapping of to_add included
\* (the key skipped); it leaves every value already in master, at any
\* depth, unchanged and adds every key path of to_add that master lacks.
C16_MergeFillsGapsWithoutError ==
  /\ callPc # "raised"
  /\ callPc = "returned" =>
       /\ Preserved(callArgs[1], callResult)
       /\ Filled(callArgs[1], callArgs[2], callResult)

(***************************************************************************)
(* LintResults: `valid` and the `results` tree.                             *)
(***************************************************************************)
LintResults == [valid |-> TRUE, results |-> EmptyDict]

\* A check that raised e instead of giving a LintResults.
Failed(e) == [valid |-> FALSE, results |-> Raise(e)]
HasFailed(r) == Raised(r.results)
FailedWith(r) == r.results[2]

\* c = {'pass': valid}, with c['reason'] = reason when not valid.
CheckEntry(valid, reason) ==
  IF valid THEN JDict([k \in {"pass"} |-> JBool(TRUE)])
  ELSE JDict([k \in {"pass", "reason"} |->
                IF k = "pass" THEN JBool(FALSE) ELSE JStr(reason)])

AddCheckResults(r, name, valid, reason) ==
  [valid |-> r.valid /\ valid,
   results |-> UpdateNestedDict(r.results,
                                JDict([k \in {name} |-> CheckEntry(valid, reason)]))]

AddStageCheckResults(r, category, check) ==
  [valid |-> r.valid /\ check.valid,
   results |->
     IF "stages" \notin DOMAIN r.results[2]
     THEN DictSet(r.results, "stages",
                  JDict([k \in {category} |-> JList(<<check.results>>)]))
     ELSE LET st == r.results[2]["stages"]
          IN IF category \notin DOMAIN st[2]
             THEN DictSet(r.results, "stages",
                          DictSet(st, category, JList(<<check.results>>)))
             ELSE DictSet(r.results, "stages",
                          DictSet(st, category,
                                  JList(Append(st[2][category][2], check.results))))]

\* The check entries of one LintResults.results dict: everything but 'stages'.
CheckNames(res) == DOMAIN res[2] \ {"stages"}

\* Every check entry of `res`, at the root and under every stage, passed.
AllPass(res) ==
  /\ \A n \in CheckNames(res) : res[2][n][2]["pass"] = JBool(TRUE)
  /\ "stages" \in DOMAIN res[2] =>
       \A c \in DOMAIN res[2]["stages"][2] :
         \A i \in DOMAIN res[2]["stages"][2][c][2] :
           LET sr == res[2]["stages"][2][c][2][i]
           IN \A n \in DOMAIN sr[2] : sr[2][n][2]["pass"] = JBool(TRUE)

(***************************************************************************)
(* Config texts.  A text is either the JSON serialisation of a document,    *)
(* text that is not JSON, or None in place of a string.                     *)
(***************************************************************************)
JunkText == [form |-> "junk", doc |-> JNull]
NoneText == [form |-> "none", doc |-> JNull]

\* In place of a text: producing it raised e.
RaisedText(e) == [form |-> "raise", doc |-> Raise(e)]

\* json.dumps(doc, indent=2, separators=(',', ': '))
JsonDumps(doc) == [form |-> "json", doc |-> doc]

\* json.loads(minify_json.json_minify(text))
JsonLoads(text) ==
  CASE text.form = "json" -> text.doc
    [] text.form = "junk" -> Raise("ValueError")
    [] text.form = "none" -> Raise("TypeError")

\* str(x) of a scalar.
PyStr(x) ==
  CASE x[1] = "str" -> x[2]
    [] x[1] = "null" -> "None"
    [] x[1] = "bool" -> IF x[2] THEN "True" ELSE "False"
    [] x[1] = "num" /\ x[2] \in 0..9 ->
         <<"0", "1", "2", "3", "4", "5", "6", "7", "8", "9">>[x[2] + 1]

(***************************************************************************)
(* Template rendering.  The strings of this model that jinja2 does not      *)
(* take as plain text, with what it makes of them: a variable expression    *)
(* or a syntax error.                                                       *)
(***************************************************************************)
TemplateStrings ==
  [s \in {"{{ storage.url }}", "{{ storage.bucket }}", "{{ table.name }}",
          "{{ storage.url"} |->
     CASE s = "{{ storage.url }}" -> [what |-> "var", path |-> <<"storage", "url">>]
       [] s = "{{ storage.bucket }}" -> [what |-> "var", path |-> <<"storage", "bucket">>]
       [] s = "{{ table.name }}" -> [what |-> "var", path |-> <<"table", "name">>]
       [] s = "{{ storage.url" -> [what |-> "syntax", path |-> <<>>]]

IsTemplate(s) == s \in DOMAIN TemplateStrings

\* The string holds a double quote.
HasQuote(s) == IsSubstring("\"", s)

\* {{ a.b }}: an undefined `a` raises UndefinedError on the attribute
\* access, a missing `b` renders as the empty string.
RenderVariable(path, variables) ==
  IF path[1] \notin DOMAIN variables[2] THEN Raise("UndefinedError")
  ELSE LET top == variables[2][path[1]]
       IN IF top[1] = "dict" /\ path[2] \in DOMAIN top[2]
          THEN JStr(PyStr(top[2][path[2]]))
          ELSE JStr("")

RenderString(s, variables) ==
  IF ~IsTemplate(s) THEN JStr(s)
  ELSE IF TemplateStrings[s].what = "syntax" THEN Raise("TemplateSyntaxError")
  ELSE RenderVariable(TemplateStrings[s].path, variables)

\* Every string value of a document.
RECURSIVE AllStrings(_)
AllStrings(x) ==
  CASE x[1] = "str" -> {x[2]}
    [] x[1] = "list" -> UNION {AllStrings(x[2][i]) : i \in DOMAIN x[2]}
    [] x[1] = "dict" -> UNION {AllStrings(x[2][k]) : k \in DOMAIN x[2]}
    [] OTHER -> {}

\* The document with every string value rendered.
RECURSIVE RenderValue(_, _)
RenderValue(x, variables) ==
  CASE x[1] = "str" -> RenderString(x[2], variables)
    [] x[1] = "list" -> JList([i \in DOMAIN x[2] |-> RenderValue(x[2][i], variables)])
    [] x[1] = "dict" -> JDict([k \in DOMAIN x[2] |-> RenderValue(x[2][k], variables)])
    [] OTHER -> x

\* jinja2.Template(config_json).render(template_variables): compiling the
\* whole text comes first, so a syntax error anywhere wins; a rendered
\* value is pasted into the text as it is, so a double quote in it ends the
\* JSON string it sits in and the text is no longer JSON.
Render(text, variables) ==
  LET strings == AllStrings(text.doc)
  IN IF \E s \in strings : IsTemplate(s) /\ TemplateStrings[s].what = "syntax"
     THEN RaisedText("TemplateSyntaxError")
     ELSE IF \E s \in strings : Raised(RenderString(s, variables))
     THEN RaisedText("UndefinedError")
     ELSE IF \E s \in strings : IsTemplate(s) /\ HasQuote(RenderString(s, variables)[2])
     THEN JunkText
     ELSE JsonDumps(RenderValue(text.doc, variables))

\* What app_identity and datetime.date.today() supply.
EnvironmentVariables ==
  [k \in {"app", "date"} |->
     IF k = "app"
     THEN JDict([a \in {"id", "hostname", "serviceAccountName"} |-> JStr(a)])
     ELSE JDict([d \in {"y-m-d", "ymd"} |-> JStr(d)])]

\* PipelineLinter.GetTemplateVariables
GetTemplateVariables(cfg) ==
  LET options == DictGet(cfg, "options", EmptyDict)
      storage0 == DictGet(options, "storage", EmptyDict)
      storage1 == UpdateNestedDict(storage0,
                    JDict([k \in {"bucket", "prefix"} |-> JStr("")]))
      storage2 == DictSet(storage1, "url",
                    JStr("gs://" \o PyStr(storage1[2]["bucket"]) \o "/"
                                 \o PyStr(storage1[2]["prefix"])))
      options1 == IF "storage" \in DOMAIN options[2]
                  THEN DictSet(options, "storage", storage2) ELSE options
  IN IF Raised(storage0) THEN storage0
     ELSE IF Raised(storage1) THEN storage1
     ELSE IF storage1[1] # "dict" THEN Raise("TypeError")
     ELSE UpdateNestedDict(options1,
            JDict([k \in {"app", "storage", "date"} |->
                     IF k = "storage" THEN storage2 ELSE EnvironmentVariables[k]]))

\* PipelineLinter.AddDefaultOptions: the new self.config.
AddDefaultOptions(cfg, default_options) ==
  LET options == DictGet(cfg, "options", EmptyDict)
      merged == IF Truthy(default_options)
                THEN UpdateNestedDict(options, default_options) ELSE options
  IN IF Raised(options) THEN options
     ELSE IF Raised(merged) THEN merged
     ELSE DictSet(cfg, "options", merged)

(***************************************************************************)
(* Stage types: pipelines.GetStageClass imports the module named by the     *)
(* lower-cased type and takes the attribute named by the type itself.       *)
(***************************************************************************)
StageModules ==
  {"bigqueryoutput", "csvmatchreplace", "datastoreinput", "gcedatatransformer",
   "gcedisksinput", "gceinstancesinput", "gcezoneoperationsinput",
   "gcscompositor", "gcsinput", "gcsoutput", "hadoopsetup", "hadoopshutdown",
   "httpinput", "s3input", "testlogconfigstage"}

\* The stage classes whose Lint method this model follows.
StageClasses == {"GcsInput", "GcsOutput", "BigQueryOutput"}

GetStageClass(type_name) ==
  IF type_name[1] # "str" THEN Raise("AttributeError")
  ELSE IF ToLower(type_name[2]) \notin StageModules THEN Raise("ImportError")
  ELSE IF type_name[2] \notin StageClasses THEN Raise("AttributeError")
  ELSE type_name

GetStage(stage_defn) ==
  LET type_name == DictGet(stage_defn, "type", JNull)
  IN IF Raised(type_name) THEN type_name ELSE GetStageClass(type_name)

(***************************************************************************)
(* StageLinter.  Each check takes the LintResults so far and the stage      *)
(* config, and gives the new LintResults or Raise(e).                       *)
(***************************************************************************)
MSG_TYPE_NOT_FOUND == "Type must be provided."

TypeCheck(r, cfg) ==
  LET stg == DictGet(cfg, "type", JNull)
      check == "TypeValid [" \o PyStr(stg) \o "]"
      cls == GetStage(cfg)
  IN IF Raised(stg) THEN Failed(stg[2])
     ELSE IF ~Truthy(stg) THEN AddCheckResults(r, check, FALSE, MSG_TYPE_NOT_FOUND)
     ELSE IF ~Raised(cls) THEN AddCheckResults(r, check, TRUE, "")
     ELSE IF cls[2] = "ImportError" THEN AddCheckResults(r, check, FALSE, cls[2])
     ELSE Failed(cls[2])

\* The key split at its first dot, if it has one.
SplitFirst(key) ==
  LET dots == {i \in 1..Len(key) : Char(key, i) = "."}
  IN IF dots = {} THEN <<key>>
     ELSE LET i == CHOOSE j \in dots : \A other \in dots : other >= j
          IN <<SubSeq(key, 1, i - 1), SubSeq(key, i + 1, Len(key))>>

\* key.rsplit('.', 1): the key split at its last dot, if it has one.
RSplit(key) ==
  LET dots == {i \in 1..Len(key) : Char(key, i) = "."}
  IN IF dots = {} THEN <<key>>
     ELSE LET i == CHOOSE j \in dots : \A other \in dots : other <= j
          IN <<SubSeq(key, 1, i - 1), SubSeq(key, i + 1, Len(key))>>

\* _GetValue(key, d) of FieldCheck.
RECURSIVE GetValue(_, _)
GetValue(key, d) ==
  IF ~Truthy(d) THEN JNull
  ELSE LET k == RSplit(key)
           parent == DictGet(d, k[1], JNull)
       IN IF Len(k) = 1 \/ Raised(parent) THEN parent
          ELSE GetValue(k[2], parent)

\* The field types: None, the classes dict and list, and the tuple of
\* classes (list, tuple).
TUPLE_OF_LIST_TYPES == "(list, tuple)"

\* isinstance(val, field_type)
IsInstance(val, field_type) ==
  IF field_type = TUPLE_OF_LIST_TYPES THEN val[1] = "list"
  ELSE val[1] = field_type

\* isinstance(field_type, collections.Iterable) and not a string: the types
\* dict and list are classes, and a class is not iterable; a tuple of
\* classes is.
IsListType(field_type) == field_type = TUPLE_OF_LIST_TYPES

CHECK_FIELD_MIN_LENGTH == "FieldMinLength"
CHECK_FIELD_MAX_LENGTH == "FieldMaxLength"

\* sys.maxint
SysMaxInt == 2147483647

\* len(val)
PyLen(val) ==
  CASE val[1] \in {"list", "str"} -> Len(val[2])
    [] val[1] = "dict" -> Cardinality(DOMAIN val[2])
    [] OTHER -> 0

\* The two length checks of FieldCheck (linter.py lines 250-261); list_min
\* and list_max are JNull (None) or a number.
LengthChecks(r, val, is_list, list_min, list_max) ==
  IF is_list /\ (Truthy(list_min) \/ Truthy(list_max))
  THEN LET l == PyLen(val)
       IN AddCheckResults(
            AddCheckResults(
              r, CHECK_FIELD_MIN_LENGTH,
              list_min = JNull
                \/ l >= (IF Truthy(list_min) THEN list_min[2] ELSE 0),
              "wrong number of items"),
            CHECK_FIELD_MAX_LENGTH,
            list_max = JNull
              \/ l <= (IF Truthy(list_max) THEN list_max[2] ELSE SysMaxInt),
            "wrong number of items")
  ELSE r

\* urlparse.urlparse(url).scheme == 'gs'
IsGsUrl(s) == StartsWith(s, "gs:")

\* validator(val) returned; any exception it raises is caught.
ValidatorPasses(validator, val) ==
  CASE validator = "UrlToBucketAndName" -> val[1] = "str" /\ IsGsUrl(val[2])

FieldCheck(r, cfg, field_name, field_type, required, validator, list_min, list_max) ==
  LET val == GetValue(field_name, cfg)
      is_list == IsListType(field_type)
      exists == "FieldExists [" \o field_name \o "]"
      r1 == IF required
            THEN AddCheckResults(r, exists, val # JNull, "must be provided")
            ELSE r
      r2 == IF field_type # "none"
            THEN AddCheckResults(r1, "TypeValid [" \o field_name \o "]",
                                 IsInstance(val, field_type), "wrong type")
            ELSE r1
      lengths == LengthChecks(r2, val, is_list, list_min, list_max)
      r3 == IF validator # "none"
            THEN AddCheckResults(
                   lengths, exists,
                   IF is_list
                   THEN \A i \in 1..Len(val[2]) :
                          ValidatorPasses(validator, val[2][i])
                   ELSE ValidatorPasses(validator, val),
                   "Invalid value")
            ELSE lengths
  IN IF Raised(val) THEN Failed(val[2])
     ELSE IF Truthy(val) THEN r3
     ELSE r1

AtLeastOneFieldRequiredCheck(r, cfg, fields, name) ==
  AddCheckResults(r, "FieldExists [" \o name \o "]",
                  \E f \in fields : f \in DOMAIN cfg[2],
                  "At least one must be provided")

\* `self.config[which] is None or None not in self.config[which]`
NoNullIn(x) ==
  CASE x[1] = "null" -> JBool(TRUE)
    [] x[1] = "list" -> JBool(JNull \notin Elements(x[2]))
    [] x[1] = "dict" -> JBool(TRUE)
    [] OTHER -> Raise("TypeError")

RECURSIVE SourceSinkLoop(_, _, _)
SourceSinkLoop(r, cfg, whiches) ==
  IF whiches = <<>> THEN r
  ELSE LET which == Head(whiches)
           ok == NoNullIn(cfg[2][which])
       IN IF which \notin DOMAIN cfg[2] THEN SourceSinkLoop(r, cfg, Tail(whiches))
          ELSE IF Raised(ok) THEN Failed(ok[2])
          ELSE SourceSinkLoop(
                 AddCheckResults(r, "FieldExists [" \o which \o "]", ok[2],
                                 "Invalid value: null"),
                 cfg, Tail(whiches))

SourceSinkCheck(r, cfg) == SourceSinkLoop(r, cfg, <<"sources", "sinks">>)

\* The FieldCheck calls of each stage's Lint, in order.
Check(field_name, field_type, required, validator) ==
  [field_name |-> field_name, field_type |-> field_type,
   required |-> required, validator |-> validator]

StageFieldChecks(cls) ==
  CASE cls = "GcsInput" ->
         << Check("object", "none", FALSE, "UrlToBucketAndName"),
            Check("objects", "none", FALSE, "UrlToBucketAndName") >>
    [] cls = "GcsOutput" ->
         << Check("object", "none", FALSE, "UrlToBucketAndName") >>
    [] cls = "BigQueryOutput" ->
         << Check("destinationTable", "dict", TRUE, "none"),
            Check("destinationTable.projectId", "none", TRUE, "none"),
            Check("destinationTable.tableId", "none", TRUE, "none"),
            Check("destinationTable.datasetId", "none", TRUE, "none"),
            Check("schema", "dict", TRUE, "none"),
            Check("schema.fields", "list", TRUE, "none") >>

RECURSIVE FieldChecks(_, _, _)
FieldChecks(r, cfg, checks) ==
  IF checks = <<>> \/ HasFailed(r) THEN r
  ELSE LET c == Head(checks)
       IN FieldChecks(FieldCheck(r, cfg, c.field_name, c.field_type,
                                 c.required, c.validator, JNull, JNull),
                      cfg, Tail(checks))

\* stage.Lint(sl)
StageLint(cls, r, cfg) ==
  FieldChecks(IF cls = "GcsInput"
              THEN AtLeastOneFieldRequiredCheck(r, cfg, {"object", "objects"},
                                                "['object', 'objects']")
              ELSE r,
              cfg, StageFieldChecks(cls))

\* PipelineLinter.LintStage: the linter's LintResults after the stage.
LintStage(r, category, cfg) ==
  LET typed == TypeCheck(LintResults, cfg)
      linted == IF typed.valid THEN StageLint(GetStage(cfg)[2], typed, cfg)
                ELSE typed
      checked == SourceSinkCheck(linted, cfg)
  IN IF HasFailed(typed) THEN typed
     ELSE IF HasFailed(linted) THEN linted
     ELSE IF HasFailed(checked) THEN checked
     ELSE AddStageCheckResults(r, category, checked)

(***************************************************************************)
(* PipelineLinter.StageCheck                                                *)
(***************************************************************************)
VALID_ROOT_KEYS == {"inputs", "outputs", "transforms", "options"}
CHECK_SYNTAX_VALID == "SyntaxValid"
CHECK_TEMPLATE_VALID == "TemplateValid"
CHECK_REQ_IO_STAGES == "HasOneInputOrOutputStage"
CHECK_UNKNOWN_CONFIG_KEYS == "NoUnknownKeys"
MSG_MISSING_IO_STAGES == "Must have at least one \"inputs\" or \"outputs\" stage."

\* `key in config and config[key]`, as a truth value.
HasStages(cfg, key) ==
  LET has == Contains(cfg, key)
  IN IF Raised(has) THEN has
     ELSE IF ~has[2] THEN JBool(FALSE)
     ELSE IF cfg[1] = "dict" THEN JBool(Truthy(cfg[2][key]))
     ELSE Raise("TypeError")

\* The two root checks of StageCheck (linter.py lines 129-143).
RootChecks(r, cfg) ==
  LET ins == HasStages(cfg, "inputs")
      outs == HasStages(cfg, "outputs")
      has_io_stage == ins[2] \/ outs[2]
      unknown_keys == DOMAIN cfg[2] \ VALID_ROOT_KEYS
  IN IF Raised(ins) THEN Failed(ins[2])
     ELSE IF ~ins[2] /\ Raised(outs) THEN Failed(outs[2])
     ELSE IF cfg[1] # "dict" THEN Failed("AttributeError")
     ELSE AddCheckResults(
            AddCheckResults(r, CHECK_REQ_IO_STAGES, has_io_stage,
                            MSG_MISSING_IO_STAGES),
            CHECK_UNKNOWN_CONFIG_KEYS, unknown_keys = {},
            "Unrecognized config keys")

\* `for s in config.get(category, [])`: the stages of one category, or one
\* entry telling that the value cannot be iterated over.
CategoryStages(cfg, category) ==
  LET x == DictGet(cfg, category, JList(<<>>))
  IN CASE x[1] = "list" ->
            [i \in DOMAIN x[2] |->
               [category |-> category, stg |-> x[2][i], raises |-> "none"]]
       [] x[1] \in {"null", "num", "bool"} ->
            << [category |-> category, stg |-> JNull, raises |-> "TypeError"] >>

\* Everything the three loops of StageCheck go through, in order.
StageList(cfg) ==
  CategoryStages(cfg, "inputs") \o CategoryStages(cfg, "transforms")
    \o CategoryStages(cfg, "outputs")

\* After `done` entries of the list: where Lint is and what it raised.
AfterStages(cfg, done) ==
  IF done = Len(StageList(cfg)) THEN [pc |-> "done", error |-> "none"]
  ELSE IF StageList(cfg)[done + 1].raises # "none"
  THEN [pc |-> "raised", error |-> StageList(cfg)[done + 1].raises]
  ELSE [pc |-> "LintStage", error |-> "none"]

(***************************************************************************)
(* The configs and default options linted.                                  *)
(***************************************************************************)
StageConfig(type_name, fields) == JDict(fields @@ ("type" :> type_name))
Pipeline(inputs, outputs) ==
  JDict(("inputs" :> JList(inputs)) @@ ("outputs" :> JList(outputs)))

GcsInputStage(object) ==
  StageConfig(JStr("GcsInput"), "object" :> JStr(object))
BigQueryOutputStage(destinationTable) ==
  StageConfig(JStr("BigQueryOutput"),
              ("destinationTable" :> destinationTable)
                @@ ("schema" :> JDict("fields" :> JList(<<JStr("name")>>))))
TableReference ==
  JDict([k \in {"projectId", "tableId", "datasetId"} |-> JStr(k)])

ObjectStrings ==
  {"gs://bucket/obj", "s3://bucket/obj", "{{ storage.url }}",
   "{{ storage.bucket }}", "{{ table.name }}", "{{ storage.url"}

ConfigDocuments ==
  {Pipeline(<<GcsInputStage(o)>>, <<>>) : o \in ObjectStrings}
  \cup {Pipeline(<<GcsInputStage("gs://bucket/obj")>>, <<BigQueryOutputStage(t)>>) :
          t \in {TableReference, JStr("project:dataset.table")}}
  \cup {Pipeline(<<stg>>, <<>>) :
          stg \in {StageConfig(JStr("GcsInput"), <<>>),
                   StageConfig(JStr("GcsInput"),
                               ("object" :> JStr("gs://bucket/obj"))
                                 @@ ("sources" :> JList(<<JNull>>))),
                   StageConfig(JStr("UnknownInput"), <<>>),
                   StageConfig(JStr("gcsinput"), <<>>),
                   StageConfig(JNum(5), <<>>),
                   EmptyDict,
                   JNum(5)}}
  \cup {EmptyDict,
        JList(<<JNum(1)>>),
        JDict("input" :> JList(<<StageConfig(JStr("UnknownInput"), <<>>)>>)),
        JDict("inputs" :> JNum(5)),
        JDict(("inputs" :> JList(<<GcsInputStage("gs://bucket/obj")>>))
                @@ ("options" :> JDict("storage" :> JStr("gs://bucket/obj"))))}

ConfigTexts == {JunkText, NoneText} \cup {JsonDumps(d) : d \in ConfigDocuments}

StorageOptions(bucket) ==
  JDict("storage" :> JDict(("bucket" :> JStr(bucket)) @@ ("prefix" :> JStr("prefix/"))))

DefaultOptions == {JNull, StorageOptions("bucket"), StorageOptions("my\"bucket")}

(***************************************************************************)
(* PipelineLinter(config_json, default_options): the steps of Lint.         *)
(***************************************************************************)
LintRaises(e) ==
  /\ lintPc' = "raised"
  /\ lintError' = e
  /\ UNCHANGED <<lintText, lintDefaults, lintConfig, lintResults, lintValid,
                 lintIdx>>

LintRecords(r) ==
  /\ lintResults' = r.results
  /\ lintValid' = r.valid

SelfResults == [valid |-> lintValid, results |-> lintResults]

\* Mutant: the reason of a failed syntax check carries no phase.
SyntaxCheckUntagged(text, phase) ==
  LET parsed == JsonLoads(text)
  IN IF Raised(parsed)
     THEN [cfg |-> lintConfig,
           r |-> AddCheckResults(SelfResults, CHECK_SYNTAX_VALID, FALSE,
                                 parsed[2])]
     ELSE [cfg |-> parsed,
           r |-> AddCheckResults(SelfResults, CHECK_SYNTAX_VALID, TRUE, "")]

\* self.SyntaxCheck(config_json): the results and self.config afterwards.
SyntaxCheck(text, phase) ==
  LET parsed == JsonLoads(text)
  IN IF Raised(parsed)
     THEN [cfg |-> lintConfig,
           r |-> AddCheckResults(SelfResults, CHECK_SYNTAX_VALID, FALSE,
                                 phase \o parsed[2])]
     ELSE [cfg |-> parsed,
           r |-> AddCheckResults(SelfResults, CHECK_SYNTAX_VALID, TRUE, "")]

\* Lint line 65, and the test of line 66.
LintSyntaxCheck ==
  /\ lintPc = "SyntaxCheck"
  /\ LET after == SyntaxCheck(lintText, "PreTemplate: ")
     IN /\ lintConfig' = after.cfg
        /\ LintRecords(after.r)
        /\ lintPc' = IF Truthy(after.cfg) /\ Truthy(lintDefaults)
                     THEN "AddDefaultOptions" ELSE "StageCheck"
  /\ UNCHANGED <<lintText, lintDefaults, lintIdx, lintError, notLint>>

\* Lint line 67.
LintAddDefaultOptions ==
  /\ lintPc = "AddDefaultOptions"
  /\ LET merged == AddDefaultOptions(lintConfig, lintDefaults)
     IN IF Raised(merged) THEN LintRaises(merged[2])
        ELSE /\ lintConfig' = merged
             /\ lintPc' = "ExpandTemplateVariables"
             /\ UNCHANGED <<lintText, lintDefaults, lintResults, lintValid,
                            lintIdx, lintError>>
  /\ UNCHANGED notLint

\* Lint line 68: config_json = self.ExpandTemplateVariables().
LintExpandTemplateVariables ==
  /\ lintPc = "ExpandTemplateVariables"
  /\ LET template_variables == GetTemplateVariables(lintConfig)
         config_json == JsonDumps(lintConfig)
         rendered == Render(config_json, template_variables)
         failed == AddCheckResults(SelfResults, CHECK_TEMPLATE_VALID, FALSE,
                                   "TemplateSyntaxError")
     IN IF Raised(template_variables) THEN LintRaises(template_variables[2])
        ELSE IF rendered.form = "raise" /\ rendered.doc[2] # "TemplateSyntaxError"
        THEN LintRaises(rendered.doc[2])
        ELSE /\ IF rendered.form = "raise"
                THEN /\ LintRecords(AddCheckResults(failed, CHECK_TEMPLATE_VALID,
                                                    TRUE, ""))
                     /\ lintText' = config_json
                ELSE /\ LintRecords(AddCheckResults(SelfResults,
                                                    CHECK_TEMPLATE_VALID, TRUE, ""))
                     /\ lintText' = rendered
             /\ lintPc' = "PostSyntaxCheck"
             /\ UNCHANGED <<lintDefaults, lintConfig, lintIdx, lintError>>
  /\ UNCHANGED notLint

\* Lint line 70: self.SyntaxCheck(config_json, phase='PostTemplate: ').
LintPostSyntaxCheck ==
  /\ lintPc = "PostSyntaxCheck"
  /\ LET after == SyntaxCheck(lintText, "PostTemplate: ")
     IN /\ lintConfig' = after.cfg
        /\ LintRecords(after.r)
  /\ lintPc' = "StageCheck"
  /\ UNCHANGED <<lintText, lintDefaults, lintIdx, lintError, notLint>>

\* self.config or {}
ConfigOrEmpty == IF Truthy(lintConfig) THEN lintConfig ELSE EmptyDict

\* Lint line 71: StageCheck up to its first loop.
LintStageCheck ==
  /\ lintPc = "StageCheck"
  /\ LET checked == RootChecks(SelfResults, ConfigOrEmpty)
         after == AfterStages(ConfigOrEmpty, 0)
     IN IF HasFailed(checked) THEN LintRaises(FailedWith(checked))
        ELSE /\ LintRecords(checked)
             /\ lintPc' = after.pc
             /\ lintError' = after.error
             /\ UNCHANGED <<lintText, lintDefaults, lintConfig, lintIdx>>
  /\ UNCHANGED notLint

\* One pass of a loop of StageCheck: self.LintStage(category, s).
LintStageStep ==
  /\ lintPc = "LintStage"
  /\ LET item == StageList(ConfigOrEmpty)[lintIdx + 1]
         linted == LintStage(SelfResults, item.category, item.stg)
         after == AfterStages(ConfigOrEmpty, lintIdx + 1)
     IN IF HasFailed(linted) THEN LintRaises(FailedWith(linted))
        ELSE /\ LintRecords(linted)
             /\ lintIdx' = lintIdx + 1
             /\ lintPc' = after.pc
             /\ lintError' = after.error
             /\ UNCHANGED <<lintText, lintDefaults, lintConfig>>
  /\ UNCHANGED notLint

InitLint ==
  /\ lintText \in ConfigTexts
  /\ lintDefaults \in DefaultOptions
  /\ lintConfig = JNull
  /\ lintResults = EmptyDict
  /\ lintValid = TRUE
  /\ lintIdx = 0
  /\ lintPc = "SyntaxCheck"
  /\ lintError = "none"
  /\ uuidCount = 0
  /\ ShardIdle
  /\ RunIdle
  /\ GcsIdle
  /\ RowsIdle
  /\ TasksIdle
  /\ CallIdle
  /\ PushIdle

NextLint ==
  \/ LintSyntaxCheck
  \/ LintAddDefaultOptions
  \/ LintExpandTemplateVariables
  \/ LintPostSyntaxCheck
  \/ LintStageCheck
  \/ LintStageStep

SpecLint == InitLint /\ [][NextLint]_vars

\* C6: constructing PipelineLinter never raises, whatever the config text
\* and the default options are: no run of Lint ends with an exception.
C6_LintNeverRaises == lintPc # "raised"

\* The results of a lint whose first syntax check failed: SyntaxValid failed
\* in the pre-template phase, the required-stage check failed, the
\* unknown-keys check passed, and nothing else.
FirstFailureChecks(res) ==
  /\ res[1] = "dict"
  /\ DOMAIN res[2] = {CHECK_SYNTAX_VALID, CHECK_REQ_IO_STAGES,
                      CHECK_UNKNOWN_CONFIG_KEYS}
  /\ res[2][CHECK_SYNTAX_VALID][2]["pass"] = JBool(FALSE)
  /\ StartsWith(res[2][CHECK_SYNTAX_VALID][2]["reason"][2], "PreTemplate: ")
  /\ res[2][CHECK_REQ_IO_STAGES] = CheckEntry(FALSE, MSG_MISSING_IO_STAGES)
  /\ res[2][CHECK_UNKNOWN_CONFIG_KEYS] = CheckEntry(TRUE, "")

\* C17: for a config text that fails the first syntax check, with or
\* without default options, the lint never merges default options, expands
\* templates or lints a stage, and does not raise; its result is invalid
\* and holds exactly three checks: SyntaxValid failed with a pre-template
\* reason, the required input-or-output-stage check failed, and the
\* unknown-root-keys check passed.
C17_FirstSyntaxFailureShortCircuits ==
  []((lintPc = "SyntaxCheck" /\ Raised(JsonLoads(lintText)))
       => [](/\ lintPc \in {"SyntaxCheck", "StageCheck", "done"}
             /\ lintPc = "done" =>
                  ~lintValid /\ FirstFailureChecks(lintResults)))

\* C17 witness: the lint of a text that is not JSON, with default options
\* given, is done.
C17_Witness ==
  /\ lintPc = "done"
  /\ lintText = JunkText
  /\ Truthy(lintDefaults)
  /\ ~lintValid
  /\ CHECK_TEMPLATE_VALID \notin DOMAIN lintResults[2]

\* The results hold a TemplateValid entry with this value of pass.
TemplateValidIs(pass) ==
  /\ lintResults[1] = "dict"
  /\ CHECK_TEMPLATE_VALID \in DOMAIN lintResults[2]
  /\ lintResults[2][CHECK_TEMPLATE_VALID][2]["pass"] = JBool(pass)

\* C25: once rendering the merged config has failed with a template syntax
\* error, TemplateValid is recorded with pass = false, the result is
\* invalid, and neither the post-template syntax check nor StageCheck runs
\* (the lint stays where the template step left it, and no root or stage
\* check is recorded); once rendering has succeeded, TemplateValid is
\* recorded with pass = true and a failure of the second syntax check
\* carries the post-template tag.
C25_TemplateFailureStopsLint ==
  /\ TemplateValidIs(FALSE) =>
       /\ ~lintValid
       /\ lintPc \notin {"StageCheck", "LintStage"}
       /\ CHECK_REQ_IO_STAGES \notin DOMAIN lintResults[2]
       /\ "stages" \notin DOMAIN lintResults[2]
  /\ (TemplateValidIs(TRUE) /\ lintPc \in {"StageCheck", "LintStage", "done"}
        /\ Raised(JsonLoads(lintText))) =>
       /\ ~lintValid
       /\ StartsWith(lintResults[2][CHECK_SYNTAX_VALID][2]["reason"][2],
                     "PostTemplate: ")

STAGE_CATEGORIES == <<"inputs", "transforms", "outputs">>

\* The stages a config lists under a category.
StagesOf(cfg, category) == DictGet(cfg, category, JList(<<>>))

\* inputs, transforms and outputs, where given, are lists of mappings.
StageMappingsOnly(cfg) ==
  /\ cfg[1] = "dict"
  /\ \A c \in 1..Len(STAGE_CATEGORIES) :
       LET x == StagesOf(cfg, STAGE_CATEGORIES[c])
       IN  x[1] = "list" /\ \A i \in 1..Len(x[2]) : x[2][i][1] = "dict"

\* The type of the stage is missing, or no stage class is found for it.
TypeUnresolved(stg) ==
  LET type_name == DictGet(stg, "type", JNull)
  IN  ~Truthy(type_name) \/ Raised(GetStageClass(type_name))

\* The entry of one stage, as the claim has it.
StageEntryAsClaimed(entry, stg) ==
  LET check == "TypeValid [" \o PyStr(DictGet(stg, "type", JNull)) \o "]"
  IN  /\ entry[1] = "dict"
      /\ check \in DOMAIN entry[2]
      /\ TypeUnresolved(stg) =>
           /\ entry[2][check][2]["pass"] = JBool(FALSE)
           /\ DOMAIN entry[2] \subseteq
                {check, "FieldExists [sources]", "FieldExists [sinks]"}
           /\ \A which \in {"sources", "sinks"} :
                which \in DOMAIN stg[2] =>
                  ("FieldExists [" \o which \o "]") \in DOMAIN entry[2]

\* C26: StageCheck, past its two root checks, on a config whose inputs,
\* transforms and outputs are lists of stage mappings: the lint ends (it
\* does not raise) with results that hold, under stages.<category>,
\* one entry per stage of the category, in config order, each with a
\* TypeValid check; the entry of a stage whose type is missing or cannot be
\* resolved has a failed TypeValid, none of the stage's own field checks and
\* its sources/sinks null checks, and the stages after it are linted too.
C26_OneEntryPerStage ==
  (/\ lintPc \in {"done", "raised"}
   /\ StageMappingsOnly(lintConfig)
   /\ CHECK_UNKNOWN_CONFIG_KEYS \in DOMAIN lintResults[2]) =>
    /\ lintPc = "done"
    /\ \A c \in 1..Len(STAGE_CATEGORIES) :
         LET category == STAGE_CATEGORIES[c]
             stgs == StagesOf(lintConfig, category)[2]
         IN  Len(stgs) > 0 =>
               /\ "stages" \in DOMAIN lintResults[2]
               /\ category \in DOMAIN lintResults[2]["stages"][2]
               /\ LET entries == lintResults[2]["stages"][2][category][2]
                  IN  /\ Len(entries) = Len(stgs)
                      /\ \A i \in 1..Len(stgs) :
                           StageEntryAsClaimed(entries[i], stgs[i])

\* C7: results.valid is true if and only if every check entry of the
\* results tree, at the root and under every stage, has pass == true.
C7_ValidIffAllPass ==
  lintPc # "idle" => (lintValid <=> AllPass(lintResults))

(***************************************************************************)
(* Cells.  A cell is a string; the Python conversions applied to it are     *)
(* followed character by character.                                         *)
(***************************************************************************)
IsDigit(c) == Len(c) = 1 /\ IsSubstring(c, "0123456789")
AllDigits(s) == Len(s) > 0 /\ \A i \in 1..Len(s) : IsDigit(Char(s, i))

\* s.strip(), for the blank as the only whitespace
RECURSIVE Strip(_)
Strip(s) ==
  IF s = "" THEN ""
  ELSE IF Head(s) = " " THEN Strip(Tail(s))
  ELSE IF Char(s, Len(s)) = " " THEN Strip(SubSeq(s, 1, Len(s) - 1))
  ELSE s

\* A cell operation gives <<"ok", value>> or <<exception, value so far>>.
Ok(value) == <<"ok", value>>
Throw(exception, value) == <<exception, value>>
IsOk(outcome) == outcome[1] = "ok"

\* The number a string of digits denotes.
RECURSIVE StrToNat(_)
StrToNat(s) ==
  IF s = "" THEN 0
  ELSE 10 * StrToNat(SubSeq(s, 1, Len(s) - 1))
         + (CHOOSE d \in 0..9 : Char("0123456789", d + 1) = Char(s, Len(s)))

\* The digits of a string of digits without its leading zeros.
RECURSIVE StripZeros(_)
StripZeros(s) ==
  IF Len(s) > 1 /\ Head(s) = "0" THEN StripZeros(Tail(s)) ELSE s

Signed(s) == s # "" /\ Head(s) \in {"+", "-"}
Unsigned(s) == IF Signed(s) THEN Tail(s) ELSE s

\* int(cell) accepts blanks, a sign and decimal digits.
IsIntLiteral(s) == AllDigits(Unsigned(Strip(s)))

\* str(int(cell))
IntStr(s) ==
  LET digits == StripZeros(Unsigned(Strip(s)))
  IN IF Head(Strip(s)) = "-" /\ digits # "0" THEN "-" \o digits ELSE digits

\* float(cell) for the literals d, d.d, d. and .d (no exponent, inf or nan).
PointAt(s) == CHOOSE i \in 1..Len(s) : Char(s, i) = "."
IsFloatLiteral(s) ==
  LET u == Unsigned(Strip(s))
  IN \/ AllDigits(u)
     \/ /\ IsSubstring(".", u)
        /\ Len(u) > 1
        /\ \A i \in 1..Len(u) : i # PointAt(u) => IsDigit(Char(u, i))

\* The digits of a fraction without its trailing zeros.
RECURSIVE StripTrailingZeros(_)
StripTrailingZeros(s) ==
  IF Len(s) > 1 /\ Char(s, Len(s)) = "0"
  THEN StripTrailingZeros(SubSeq(s, 1, Len(s) - 1)) ELSE s

\* str(float(cell)), for the values that '%.12g' prints digit by digit.
FloatStr(s) ==
  LET u == Unsigned(Strip(s))
      whole == IF IsSubstring(".", u) THEN SubSeq(u, 1, PointAt(u) - 1) ELSE u
      fraction == IF IsSubstring(".", u) THEN SubSeq(u, PointAt(u) + 1, Len(u)) ELSE ""
      w == StripZeros(IF whole = "" THEN "0" ELSE whole)
      f == StripTrailingZeros(IF fraction = "" THEN "0" ELSE fraction)
  IN CASE Len(w) <= 9 /\ Len(f) <= 3 ->
            (IF Head(Strip(s)) = "-" THEN "-" ELSE "") \o w \o "." \o f

(***************************************************************************)
(* timestamp.NormalizeTimeStamp                                             *)
(***************************************************************************)
\* '%Y-%m-%d' read by strptime, for cells written with two-digit fields.
IsDate(s) ==
  /\ Len(s) = 10
  /\ AllDigits(SubSeq(s, 1, 4)) /\ Char(s, 5) = "-"
  /\ AllDigits(SubSeq(s, 6, 7)) /\ Char(s, 8) = "-"
  /\ AllDigits(SubSeq(s, 9, 10))
  /\ StrToNat(SubSeq(s, 6, 7)) \in 1..12
  /\ StrToNat(SubSeq(s, 9, 10)) \in 1..28

\* '%H:%M:%S' read by strptime.
IsTime(s) ==
  /\ Len(s) = 8
  /\ AllDigits(SubSeq(s, 1, 2)) /\ Char(s, 3) = ":"
  /\ AllDigits(SubSeq(s, 4, 5)) /\ Char(s, 6) = ":"
  /\ AllDigits(SubSeq(s, 7, 8))
  /\ StrToNat(SubSeq(s, 1, 2)) \in 0..23
  /\ StrToNat(SubSeq(s, 4, 5)) \in 0..59
  /\ StrToNat(SubSeq(s, 7, 8)) \in 0..59

\* A datetime is held as what strftime(OUTPUT_TIMESTAMP_FORMAT) prints for
\* it.  None is held as the empty string, which is no datetime and no
\* value of a failed cell.
None == ""

\* ParseTimeFormat over INPUT_TIMESTAMP_FORMATS, for cells of the forms
\* YYYY-mm-dd and YYYY-mm-dd HH:MM:SS; '%z' is no directive of strptime,
\* the shortened formats are the ones that match.
ParseTimeFormats(cell) ==
  IF IsDate(cell) THEN cell \o " 00:00:00.000000 "
  ELSE IF Len(cell) = 19 /\ IsDate(SubSeq(cell, 1, 10)) /\ Char(cell, 11) = " "
          /\ IsTime(SubSeq(cell, 12, 19))
  THEN cell \o ".000000 "
  ELSE None

\* str(n) for a natural number, and the same on two digits.
RECURSIVE NatStr(_)
NatStr(n) ==
  IF n < 10 THEN Char("0123456789", n + 1)
  ELSE NatStr(n \div 10) \o Char("0123456789", (n % 10) + 1)
TwoDigits(n) == IF n < 10 THEN "0" \o NatStr(n) ELSE NatStr(n)

SECONDS_PER_DAY == 86400
\* More decimal digits than any timestamp up to datetime.max has.
MAX_EPOCH_DIGITS == 12

\* datetime.datetime.fromtimestamp(int(cell)), in UTC: a time of
\* 1970-01-01, or ValueError for a number beyond year 9999.
FromTimestamp(cell) ==
  LET digits == StripZeros(Unsigned(Strip(cell)))
  IN CASE Len(digits) > MAX_EPOCH_DIGITS -> Throw("ValueError", cell)
       [] Len(digits) <= 5 /\ StrToNat(digits) < SECONDS_PER_DAY
            /\ ~StartsWith(Strip(cell), "-") ->
            LET n == StrToNat(digits)
            IN Ok("1970-01-01 " \o TwoDigits(n \div 3600) \o ":"
                  \o TwoDigits((n % 3600) \div 60) \o ":" \o TwoDigits(n % 60)
                  \o ".000000 ")

\* The result kind of pdt.parse(cell): 0 not parsed, 1 a date, 2 a time,
\* 3 a date and a time.
PdtResultType(cell) ==
  CASE cell = "tomorrow" -> 1
    [] cell = "noon" -> 2
    [] cell = "tomorrow at noon" -> 3
    [] OTHER -> 0

\* datetime.datetime(*pdt_result[:6]) printed: it depends on the day the
\* program runs.
PdtDateTime(cell) == "<" \o cell \o ">"

NormalizeTimeStamp(cell0) ==
  LET cell == Strip(ToLower(cell0))
      parsed == ParseTimeFormats(cell)
      epoch == IF IsIntLiteral(cell) THEN FromTimestamp(cell)
               ELSE Throw("ValueError", cell)
      dt == IF IsOk(epoch) THEN epoch[2] ELSE parsed
      pdt_result_type == PdtResultType(cell)
  IN IF dt # None THEN Ok(dt)
     ELSE IF pdt_result_type \in {1, 2} THEN Ok(PdtDateTime(cell))
     ELSE IF pdt_result_type = 3 THEN Throw("AttributeError", cell0)
     ELSE Throw("ValueError", cell0)

(***************************************************************************)
(* transform.TransformCell                                                  *)
(***************************************************************************)
ColumnTypes_EMPTY == 0
ColumnTypes_STRING == 1
ColumnTypes_INTEGER == 2
ColumnTypes_FLOAT == 3
ColumnTypes_BOOLEAN == 4
ColumnTypes_TIMESTAMP == 5

Letters == LowerCase \o UpperCase \o "0123456789"
\* The pattern has no character that is special in a regular expression.
IsLiteralPattern(match) ==
  match # "" /\ \A i \in 1..Len(match) : IsSubstring(Char(match, i), Letters)

\* re.sub(match, replace, cell) for a literal pattern: every occurrence,
\* from the left, not overlapping.
RECURSIVE ReplaceAll(_, _, _)
ReplaceAll(match, replace, cell) ==
  IF Len(cell) < Len(match) THEN cell
  ELSE IF StartsWith(cell, match)
  THEN replace \o ReplaceAll(match, replace, SubSeq(cell, Len(match) + 1, Len(cell)))
  ELSE Head(cell) \o ReplaceAll(match, replace, Tail(cell))

\* re.sub(pattern['match'], pattern['replace'], output): "(" does not
\* compile.
ReSub(pattern, cell) ==
  CASE IsLiteralPattern(pattern.match) ->
         Ok(ReplaceAll(pattern.match, pattern.replace, cell))
    [] pattern.match = "(" -> Throw("error", cell)

RECURSIVE Transformations(_, _)
Transformations(patterns, cell) ==
  IF patterns = <<>> THEN Ok(cell)
  ELSE LET output == ReSub(Head(patterns), cell)
       IN IF IsOk(output) THEN Transformations(Tail(patterns), output[2])
          ELSE output

\* NormalizeCellByType: Ok(str(cell)), CellError with value str(cell) for a
\* ValueError, or the exception that is not a ValueError.
NormalizeCellByType(cell, column_type) ==
  IF cell = "" THEN Ok("")
  ELSE CASE column_type = ColumnTypes_INTEGER ->
              IF IsIntLiteral(cell) THEN Ok(IntStr(cell))
              ELSE Throw("CellError", cell)
         [] column_type = ColumnTypes_FLOAT ->
              IF IsFloatLiteral(cell) THEN Ok(FloatStr(cell))
              ELSE Throw("CellError", cell)
         [] column_type = ColumnTypes_BOOLEAN ->
              IF ToLower(cell) \in {"true", "1"} THEN Ok("True")
              ELSE IF ToLower(cell) \in {"false", "0"} THEN Ok("False")
              ELSE Throw("CellError", cell)
         [] column_type = ColumnTypes_TIMESTAMP ->
              LET normalized == NormalizeTimeStamp(cell)
              IN IF normalized[1] = "ValueError" THEN Throw("CellError", cell)
                 ELSE normalized
         [] OTHER -> Ok(cell)

\* Mutant: the cell is returned after its substitutions, not normalised.
TransformCellUnnormalized(cell, column) ==
  Transformations(column.transformations, cell)

TransformCell(cell, column) ==
  LET output == Transformations(column.transformations, cell)
  IN IF IsOk(output) THEN NormalizeCellByType(output[2], column.type)
     ELSE output

(***************************************************************************)
(* transform.TransformRow                                                   *)
(***************************************************************************)
\* index=None of a CellError
NoIndex == -1

CellError(message, value, index) ==
  [message |-> message, value |-> value, index |-> index]

\* What TransformRow has after the columns before i (0-based): the
\* transformed row, the errors, and the exception that ended it, if any.
RECURSIVE TransformColumns(_, _, _, _)
TransformColumns(row, columns, i, sofar) ==
  IF i >= Min(Len(row), Len(columns)) \/ sofar.raised # "none" THEN sofar
  ELSE IF ~columns[i + 1].wanted THEN TransformColumns(row, columns, i + 1, sofar)
  ELSE LET cell_data == TransformCell(row[i + 1], columns[i + 1])
       IN TransformColumns(row, columns, i + 1,
            CASE IsOk(cell_data) ->
                   [sofar EXCEPT !.transformed_row = Append(@, cell_data[2])]
              [] cell_data[1] = "CellError" ->
                   [sofar EXCEPT
                      !.bad_columns = Append(@, CellError("Invalid value",
                                                          cell_data[2], i)),
                      !.transformed_row = Append(@, cell_data[2])]
              [] OTHER -> [sofar EXCEPT !.raised = cell_data[1]])

\* Mutant: the error of a row of the wrong length is appended after the
\* errors of its cells.
TransformRowLengthLast(row, cfg) ==
  LET columns == cfg["columns"]
      cells == TransformColumns(row, columns, 0,
                 [transformed_row |-> <<>>, bad_columns |-> <<>>,
                  raised |-> "none"])
  IN IF Len(row) # Len(columns)
     THEN [cells EXCEPT
             !.bad_columns =
               Append(@, CellError("Invalid number of elements in row",
                                   None, NoIndex))]
     ELSE cells

TransformRow(row, cfg) ==
  LET columns == cfg["columns"]
  IN TransformColumns(row, columns, 0,
       [transformed_row |-> <<>>,
        bad_columns |-> IF Len(row) # Len(columns)
                        THEN <<CellError("Invalid number of elements in row",
                                         None, NoIndex)>>
                        ELSE <<>>,
        raised |-> "none"])

\* csv.writer: a field holding the delimiter or a quote is quoted, and its
\* quotes doubled.
QuoteField(cell) ==
  IF IsSubstring(",", cell) \/ IsSubstring("\"", cell)
  THEN "\"" \o ReplaceAll("\"", "\"\"", cell) \o "\""
  ELSE cell

\* The line csv.writer writes for a row, without its line end.
RECURSIVE CellsToCsvString(_)
CellsToCsvString(row) ==
  IF row = <<>> THEN ""
  ELSE IF row = <<"">> THEN "\"\""
  ELSE IF Len(row) = 1 THEN QuoteField(row[1])
  ELSE QuoteField(row[1]) \o "," \o CellsToCsvString(Tail(row))

\* The record transform.WriteErrors writes.
BadRowRecord(row_value, errors) == [row_value |-> row_value, errors |-> errors]

(***************************************************************************)
(* csvmatchreplace.ReadTransformWriteRows over a stage config and the rows  *)
(* of a source.                                                             *)
(***************************************************************************)
MaxRows == 2

Pattern(match, replace) == [match |-> match, replace |-> replace]
Column(type, wanted, transformations) ==
  [type |-> type, wanted |-> wanted, transformations |-> transformations]

\* A stage config's columns with rows of a source they are applied to.
Table(columns, rows) == [columns |-> columns, rows |-> rows]

Tables ==
  { Table(<< Column(ColumnTypes_STRING, TRUE,
                    <<Pattern("ue", "oo"), Pattern("lo", "ol")>>),
             Column(ColumnTypes_STRING, FALSE, <<>>),
             Column(ColumnTypes_STRING, TRUE, <<Pattern("b", "k")>>) >>,
          { <<"true", "hue", "blue">>,
            <<"blue", "lo">>,
            <<"glue", "(", "b,b">> }),
    Table(<< Column(ColumnTypes_INTEGER, TRUE, <<>>),
             Column(ColumnTypes_TIMESTAMP, TRUE, <<>>) >>,
          { <<"7", "1989-10-02 05:23:48">>,
            <<"x", "tomorrow">>,
            <<"60", "tomorrow at noon">>,
            <<"0", "9999999999999">>,
            <<"", "75">>,
            <<"5">> }),
    Table(<< Column(ColumnTypes_BOOLEAN, TRUE, <<>>),
             Column(ColumnTypes_FLOAT, TRUE, <<Pattern("x", "")>>) >>,
          { <<"1", "1.50x">>,
            <<"TRUE", "x">>,
            <<"maybe", "2">>,
            <<"maybe", "1.2.3">>,
            <<"0", "1.2.3">> }) }

RowSequences(rows) == UNION {[1..n -> rows] : n \in 0..MaxRows}

\* finished_func and finished_func(), after `count` rows.
Finished(count) == rowsLimit > 0 /\ count >= rowsLimit

RowsAfter(count) ==
  IF count = Len(rowsInput) \/ Finished(count) THEN "returned" ELSE "running"

\* Mutant: the pass writes the transformed row to the primary sink whether
\* or not it has errors.
TransformWriteEveryRow ==
  /\ rowsPc = "running"
  /\ LET row == rowsInput[rowCount + 1]
         result == TransformRow(row, rowsConfig)
     IN /\ result.raised = "none"
        /\ primarySink' = Append(primarySink,
                                 CellsToCsvString(result.transformed_row))
        /\ IF result.bad_columns = <<>>
           THEN UNCHANGED <<badRowCount, badrowsSink>>
           ELSE /\ badRowCount' = badRowCount + 1
                /\ badrowsSink' =
                     IF badrowsFile
                     THEN Append(badrowsSink,
                                 BadRowRecord(CellsToCsvString(row), result.bad_columns))
                     ELSE badrowsSink
  /\ rowCount' = rowCount + 1
  /\ rowsPc' = IF rowCount + 1 = Len(rowsInput) \/ Finished(rowCount + 1)
               THEN "returned" ELSE "running"
  /\ UNCHANGED <<rowsConfig, rowsInput, rowsLimit, badrowsFile, rowsError, notRows>>

\* One pass of the loop over csv_reader for a row TransformRow accepts.
TransformWriteRow ==
  /\ rowsPc = "running"
  /\ LET row == rowsInput[rowCount + 1]
         result == TransformRow(row, rowsConfig)
     IN /\ result.raised = "none"
        /\ IF result.bad_columns = <<>>
           THEN /\ primarySink' = Append(primarySink,
                                         CellsToCsvString(result.transformed_row))
                /\ UNCHANGED <<badRowCount, badrowsSink>>
           ELSE /\ badRowCount' = badRowCount + 1
                /\ badrowsSink' =
                     IF badrowsFile
                     THEN Append(badrowsSink,
                                 BadRowRecord(CellsToCsvString(row), result.bad_columns))
                     ELSE badrowsSink
                /\ UNCHANGED primarySink
  /\ rowCount' = rowCount + 1
  /\ rowsPc' = RowsAfter(rowCount + 1)
  /\ UNCHANGED <<rowsConfig, rowsInput, rowsLimit, badrowsFile, rowsError, notRows>>

\* The pass of the loop in which TransformRow raises.
TransformRowRaises ==
  /\ rowsPc = "running"
  /\ LET result == TransformRow(rowsInput[rowCount + 1], rowsConfig)
     IN /\ result.raised # "none"
        /\ rowsError' = result.raised
  /\ rowsPc' = "raised"
  /\ UNCHANGED <<rowsConfig, rowsInput, rowsLimit, badrowsFile, rowCount,
                 badRowCount, primarySink, badrowsSink, notRows>>

InitRows ==
  /\ \E t \in Tables :
       /\ rowsConfig = [k \in {"columns"} |-> t.columns]
       /\ rowsInput \in RowSequences(t.rows)
  /\ rowsLimit \in 0..1
  /\ badrowsFile \in BOOLEAN
  /\ rowCount = 0
  /\ badRowCount = 0
  /\ primarySink = <<>>
  /\ badrowsSink = <<>>
  /\ rowsPc = RowsAfter(0)
  /\ rowsError = "none"
  /\ uuidCount = 0
  /\ ShardIdle
  /\ RunIdle
  /\ GcsIdle
  /\ LintIdle
  /\ TasksIdle
  /\ CallIdle
  /\ PushIdle

NextRows == TransformWriteRow \/ TransformRowRaises

SpecRows == InitRows /\ [][NextRows]_vars

\* C8: TransformRow never raises, so that the loop of
\* ReadTransformWriteRows is never left by an exception and every
\* remaining row is processed.
C8_TransformRowNeverRaises == rowsPc # "raised"

\* The lines the error-free rows among the first n give, in order.
RECURSIVE ErrorFreeLines(_)
ErrorFreeLines(n) ==
  IF n = 0 THEN <<>>
  ELSE LET result == TransformRow(rowsInput[n], rowsConfig)
       IN IF result.bad_columns = <<>>
          THEN Append(ErrorFreeLines(n - 1), CellsToCsvString(result.transformed_row))
          ELSE ErrorFreeLines(n - 1)

\* The records the rows with errors among the first n give, in order.
RECURSIVE BadRowRecords(_)
BadRowRecords(n) ==
  IF n = 0 THEN <<>>
  ELSE LET result == TransformRow(rowsInput[n], rowsConfig)
       IN IF result.bad_columns # <<>>
          THEN Append(BadRowRecords(n - 1),
                      BadRowRecord(CellsToCsvString(rowsInput[n]), result.bad_columns))
          ELSE BadRowRecords(n - 1)

BadRowsWritten ==
  badrowsSink = IF badrowsFile THEN BadRowRecords(rowCount) ELSE <<>>

\* C9 as stated: every row processed gives exactly one line in the primary
\* sink, rows with errors included, and the rows with errors, and only
\* they, are written to the bad-rows sink when one is configured.
C9_EveryRowInPrimarySink ==
  /\ Len(primarySink) = rowCount
  /\ BadRowsWritten

\* C9 as the code has it: of the rows processed, those without errors give
\* exactly one line each in the primary sink and nothing in the bad-rows
\* sink; those with errors give no line in the primary sink and, when a
\* bad-rows sink is configured, exactly one record each there.
C9_RowsSplitBetweenSinks ==
  /\ primarySink = ErrorFreeLines(rowCount)
  /\ BadRowsWritten
  /\ Len(primarySink) + badRowCount = rowCount

\* A run that returned after a row without errors and a row with errors,
\* with a bad-rows sink.
C9_Witness ==
  /\ rowsPc = "returned"
  /\ badrowsFile
  /\ Len(primarySink) >= 1
  /\ Len(badrowsSink) >= 1

(***************************************************************************)
(* One call of transform.TransformRow(row, config).                         *)
(***************************************************************************)
\* A row of a source, the row with a cell too many, and with its last cell
\* missing.
RowVariants(row) ==
  {row, Append(row, "more"), SubSeq(row, 1, Len(row) - 1)}

\* The columns, each wanted or not.
ColumnVariants(columns) ==
  {[i \in 1..Len(columns) |-> [columns[i] EXCEPT !.wanted = w[i]]] :
     w \in [1..Len(columns) -> BOOLEAN]}

TransformCalls ==
  UNION {(UNION {RowVariants(row) : row \in t.rows})
           \X {[columns |-> c] : c \in ColumnVariants(t.columns)} :
         t \in Tables}

\* transform.TransformRow(row, config) returns (transformed_row, bad_columns).
TransformRowCallReturns ==
  /\ callPc = "ready"
  /\ TransformRow(callArgs[1], callArgs[2]).raised = "none"
  /\ callResult' = TransformRow(callArgs[1], callArgs[2])
  /\ callPc' = "returned"
  /\ UNCHANGED <<callArgs, notCall>>

\* transform.TransformRow(row, config) is left by an exception that is not a
\* CellError.
TransformRowCallRaises ==
  /\ callPc = "ready"
  /\ TransformRow(callArgs[1], callArgs[2]).raised # "none"
  /\ callResult' = TransformRow(callArgs[1], callArgs[2])
  /\ callPc' = "raised"
  /\ UNCHANGED <<callArgs, notCall>>

InitTransform ==
  /\ callArgs \in TransformCalls
  /\ callResult = <<>>
  /\ callPc = "ready"
  /\ uuidCount = 0
  /\ ShardIdle
  /\ RunIdle
  /\ GcsIdle
  /\ LintIdle
  /\ RowsIdle
  /\ TasksIdle
  /\ PushIdle

NextTransform == TransformRowCallReturns \/ TransformRowCallRaises

SpecTransform == InitTransform /\ [][NextTransform]_vars

\* The entry of the output row for a cell of a wanted column: the cell
\* after its substitutions and normalisation, or after its substitutions
\* alone when the normalisation fails.
ExpectedCell(cell, column) ==
  LET substituted == Transformations(column.transformations, cell)
      normalized == NormalizeCellByType(substituted[2], column.type)
  IN  IF IsOk(normalized) THEN normalized[2] ELSE substituted[2]

\* C18: the output row TransformRow returns has exactly one entry for each
\* wanted column index i < min(len(row), len(columns)), in ascending index
\* order, and none for an unwanted column: the cell after its substitutions
\* and type normalisation, or the post-substitution value of a cell that
\* raised CellError.
C18_OneEntryPerWantedColumn ==
  callPc = "returned" =>
    LET row == callArgs[1]
        columns == callArgs[2]["columns"]
        n == IF Len(row) < Len(columns) THEN Len(row) ELSE Len(columns)
        wanted == {i \in 1..n : columns[i].wanted}
        out == callResult.transformed_row
    IN  /\ Len(out) = Cardinality(wanted)
        /\ \A i \in wanted :
             out[Cardinality({j \in wanted : j <= i})]
               = ExpectedCell(row[i], columns[i])

\* C18 witness: a row longer than its columns, with a cell that raised
\* CellError, gave a two-entry output row.
C18_Witness ==
  /\ callPc = "returned"
  /\ Len(callArgs[1]) > Len(callArgs[2]["columns"])
  /\ \E e \in DOMAIN callResult.bad_columns :
       callResult.bad_columns[e].index # NoIndex
  /\ Len(callResult.transformed_row) = 2

\* The 1-based positions, below min(len(row), len(columns)), of the wanted
\* columns whose cell raised CellError.
FailedWanted(row, columns) ==
  {i \in 1..Min(Len(row), Len(columns)) :
     columns[i].wanted /\ TransformCell(row[i], columns[i])[1] = "CellError"}

\* C29: the error list TransformRow returns starts with one error without
\* index iff len(row) # len(columns); then comes exactly one CellError for
\* each wanted column index i < min(len(row), len(columns)) whose cell
\* failed, in ascending index order, with index i and the value that
\* failed; the list is empty iff the lengths match and no wanted cell
\* failed, and a failing cell of an unwanted column adds nothing.
C29_ErrorListShape ==
  callPc = "returned" =>
    LET row == callArgs[1]
        columns == callArgs[2]["columns"]
        failed == FailedWanted(row, columns)
        errs == callResult.bad_columns
        off == IF Len(row) # Len(columns) THEN 1 ELSE 0
    IN  /\ Len(errs) = off + Cardinality(failed)
        /\ off = 1 => errs[1].index = NoIndex
        /\ \A e \in (off + 1)..Len(errs) : errs[e].index # NoIndex
        /\ \A i \in failed :
             LET e == errs[off + Cardinality({j \in failed : j <= i})]
             IN  /\ e.index = i - 1
                 /\ e.value = ExpectedCell(row[i], columns[i])
        /\ (errs = <<>>) <=> (Len(row) = Len(columns) /\ failed = {})

\* C29 witness: a row of the wrong length with a failed wanted cell and a
\* cell of an unwanted column that would have failed.
C29_Witness ==
  /\ callPc = "returned"
  /\ Len(callArgs[1]) # Len(callArgs[2]["columns"])
  /\ Len(callResult.bad_columns) >= 2
  /\ \E i \in 1..Min(Len(callArgs[1]), Len(callArgs[2]["columns"])) :
       /\ ~callArgs[2]["columns"][i].wanted
       /\ TransformCell(callArgs[1][i], callArgs[2]["columns"][i])[1]
            = "CellError"

(***************************************************************************)
(* PushPipeline.run and FanOut.run under the orchestrator.  A task is the   *)
(* pair of its kind and its index: an input, transform or output stage, a   *)
(* FanOut, or the common.Ignore yielded when there is no transform.  A task *)
(* yielded inside an After or InOrder block starts only once the tasks the  *)
(* block names have completed; a FanOut has completed when the              *)
(* common.Append of its stages has, that is once all its stages have.       *)
(***************************************************************************)
MaxStages == 2

FanOutInputs == <<"FanOut", 1>>
FanOutOutputs == <<"FanOut", 2>>
Ignore == <<"Ignore", 1>>
Stage(category, i) == <<category, i>>

\* last_tx after the InOrder block and the `if not last_tx` that follows.
LastTx(defn) ==
  IF defn.transforms > 0 THEN Stage("transforms", defn.transforms) ELSE Ignore

\* The tasks PushPipeline.run yields.
PushYields(defn) ==
  {FanOutInputs, FanOutOutputs, LastTx(defn)}
    \cup {Stage("transforms", k) : k \in 1..defn.transforms}

\* Mutant: the transforms are yielded outside the InOrder block.
YieldedAfterUnordered(defn, t) ==
  CASE t = FanOutInputs -> {}
    [] t = FanOutOutputs -> {FanOutInputs, LastTx(defn)}
    [] OTHER -> {FanOutInputs}

\* The tasks that the After and InOrder blocks around the yield of task t
\* name.
YieldedAfter(defn, t) ==
  CASE t = FanOutInputs -> {}
    [] t = FanOutOutputs -> {FanOutInputs, LastTx(defn)}
    [] t[1] = "transforms" /\ t[2] > 1 ->
         {FanOutInputs, Stage("transforms", t[2] - 1)}
    [] OTHER -> {FanOutInputs}

\* The stages a FanOut yields, one per stage definition it was given.
FanOutYields(defn, f) ==
  IF f = FanOutInputs THEN {Stage("inputs", i) : i \in 1..defn.inputs}
  ELSE {Stage("outputs", i) : i \in 1..defn.outputs}

Completed(t) == t \in DOMAIN pushTask /\ pushTask[t] = "done"

Started(t) == t \in DOMAIN pushTask /\ pushTask[t] # "pending"

\* PushPipeline.run(defn): the generator runs to its end, yielding the
\* FanOut of the inputs, the transforms (or Ignore) and the FanOut of the
\* outputs.
PushPipelineRun ==
  /\ pushTask = <<>>
  /\ pushDefn # <<>>
  /\ pushTask' = [t \in PushYields(pushDefn) |-> "pending"]
  /\ pushAfter' = [t \in PushYields(pushDefn) |-> YieldedAfter(pushDefn, t)]
  /\ UNCHANGED <<pushDefn, notPush>>

\* FanOut.run(defn): started by the orchestrator once the tasks it was
\* yielded After have completed, it yields a stage per definition.
FanOutRun(f) ==
  /\ f \in {FanOutInputs, FanOutOutputs}
  /\ f \in DOMAIN pushTask
  /\ pushTask[f] = "pending"
  /\ \A t \in pushAfter[f] : Completed(t)
  /\ pushTask' = [t \in DOMAIN pushTask \cup FanOutYields(pushDefn, f) |->
                    IF t = f THEN "running"
                    ELSE IF t \in DOMAIN pushTask THEN pushTask[t]
                    ELSE "pending"]
  /\ pushAfter' = [t \in DOMAIN pushTask \cup FanOutYields(pushDefn, f) |->
                     IF t \in DOMAIN pushAfter THEN pushAfter[t] ELSE {}]
  /\ UNCHANGED <<pushDefn, notPush>>

\* yield common.Append(*all_stages): the FanOut has its result once every
\* stage it yielded has completed.
FanOutAppend(f) ==
  /\ f \in {FanOutInputs, FanOutOutputs}
  /\ f \in DOMAIN pushTask
  /\ pushTask[f] = "running"
  /\ \A t \in FanOutYields(pushDefn, f) : Completed(t)
  /\ pushTask' = [pushTask EXCEPT ![f] = "done"]
  /\ UNCHANGED <<pushDefn, pushAfter, notPush>>

\* The orchestrator starts a stage (or Ignore): only once the tasks it was
\* yielded After have completed.
StartStage(t) ==
  /\ t \notin {FanOutInputs, FanOutOutputs}
  /\ pushTask[t] = "pending"
  /\ \A a \in pushAfter[t] : Completed(a)
  /\ pushTask' = [pushTask EXCEPT ![t] = "running"]
  /\ UNCHANGED <<pushDefn, pushAfter, notPush>>

\* A stage (or Ignore) completes.
FinishStage(t) ==
  /\ t \notin {FanOutInputs, FanOutOutputs}
  /\ pushTask[t] = "running"
  /\ pushTask' = [pushTask EXCEPT ![t] = "done"]
  /\ UNCHANGED <<pushDefn, pushAfter, notPush>>

\* defn: its 'inputs', 'transforms' and 'outputs' lists, none to MaxStages
\* long each.
InitPush ==
  /\ pushDefn \in [inputs : 0..MaxStages, transforms : 0..MaxStages,
                    outputs : 0..MaxStages]
  /\ pushTask = <<>>
  /\ pushAfter = <<>>
  /\ uuidCount = 0
  /\ ShardIdle
  /\ RunIdle
  /\ GcsIdle
  /\ LintIdle
  /\ RowsIdle
  /\ TasksIdle
  /\ CallIdle

NextPush ==
  \/ PushPipelineRun
  \/ \E t \in DOMAIN pushTask :
       \/ FanOutRun(t)
       \/ FanOutAppend(t)
       \/ StartStage(t)
       \/ FinishStage(t)

SpecPush == InitPush /\ [][NextPush]_vars

InputsCompleted ==
  \A i \in 1..pushDefn.inputs : Completed(Stage("inputs", i))

\* C19: in every PushPipeline run no transform has started before every
\* input stage has completed, transform k+1 has not started before
\* transform k has completed, and no output stage has started before the
\* last transform has completed or, without transforms, before every input
\* stage has completed.
C19_InputsThenTransformsThenOutputs ==
  pushTask # <<>> =>
    /\ \A k \in 1..pushDefn.transforms :
         Started(Stage("transforms", k)) =>
           /\ InputsCompleted
           /\ k > 1 => Completed(Stage("transforms", k - 1))
    /\ \A o \in 1..pushDefn.outputs :
         Started(Stage("outputs", o)) =>
           IF pushDefn.transforms > 0
           THEN Completed(Stage("transforms", pushDefn.transforms))
           ELSE InputsCompleted

\* C19 witness: after two inputs and two transforms, two output stages are
\* running side by side.
C19_Witness ==
  /\ pushTask # <<>>
  /\ pushDefn.inputs = 2
  /\ pushDefn.transforms = 2
  /\ Started(Stage("outputs", 1)) /\ ~Completed(Stage("outputs", 1))
  /\ Started(Stage("outputs", 2)) /\ ~Completed(Stage("outputs", 2))

(***************************************************************************)
(* One run of GcsCompositor.run(config).                                    *)
(***************************************************************************)
\* The URLs of the sources and sinks: two objects in each of two buckets.
CompositorUrls ==
  {MakeUrl(b, Name(k, 0)) : b \in {"bucket", "other"}, k \in 1..2}

\* The stage configs: 'sources' of none to SmallSources URLs, one sink,
\* 'contentType' and 'deleteSources' given or not.
CompositorConfigSet ==
  {("sources" :> sources) @@ ("sinks" :> <<sink>>)
     @@ Opt("contentType", hc, "text/csv") @@ Opt("deleteSources", hd, d) :
   sources \in UNION {[1..n -> CompositorUrls] : n \in 0..SmallSources},
   sink \in CompositorUrls, hc \in BOOLEAN, hd \in BOOLEAN, d \in BOOLEAN}

\* storage.ComposeObjects(dest_bucket, src_objects, dest_obj,
\* config['contentType']), then the GcsDeleter yielded when 'deleteSources'
\* is set.
GcsCompositorRun ==
  /\ callPc = "ready"
  /\ "contentType" \in DOMAIN callArgs
  /\ callResult' =
       [bucket       |-> DestOf(callArgs)[1],
        src_objects  |-> SrcObjects(callArgs["sources"]),
        dest_obj     |-> DestOf(callArgs)[2],
        content_type |-> callArgs["contentType"],
        deleted      |-> IF Get(callArgs, "deleteSources", FALSE)
                         THEN callArgs["sources"] ELSE <<>>]
  /\ callPc' = "returned"
  /\ UNCHANGED <<callArgs, notCall>>

\* config['contentType'] of a config without the key: KeyError, after the
\* sources were read and before any request.
GcsCompositorRaises ==
  /\ callPc = "ready"
  /\ "contentType" \notin DOMAIN callArgs
  /\ callResult' = "KeyError"
  /\ callPc' = "raised"
  /\ UNCHANGED <<callArgs, notCall>>

InitCompositor ==
  /\ callArgs \in CompositorConfigSet
  /\ callResult = <<>>
  /\ callPc = "ready"
  /\ uuidCount = 0
  /\ ShardIdle
  /\ RunIdle
  /\ GcsIdle
  /\ LintIdle
  /\ RowsIdle
  /\ TasksIdle
  /\ PushIdle

NextCompositor == GcsCompositorRun \/ GcsCompositorRaises

SpecCompositor == InitCompositor /\ [][NextCompositor]_vars

\* The names of the sources that are in the bucket given, in order.
RECURSIVE NamesInBucket(_, _)
NamesInBucket(sources, bucket) ==
  IF sources = <<>> THEN <<>>
  ELSE (IF Head(sources).bucket = bucket THEN <<Head(sources).obj>> ELSE <<>>)
         \o NamesInBucket(Tail(sources), bucket)

\* C20: GcsCompositor.run composes only the sources whose bucket is the
\* bucket of the first sink URL; a source URL naming another bucket is
\* stripped from the compose request, not composed as an object of that
\* name in the destination bucket.
C20_OtherBucketSourcesStripped ==
  callPc = "returned" =>
    callResult.src_objects
      = NamesInBucket(callArgs["sources"], callArgs["sinks"][1].bucket)

(***************************************************************************)
(* One call of StageLinter.FieldCheck on a stage config, with no validator. *)
(***************************************************************************)
MaxItems == 3

\* Stage configs with a list field of 0..MaxItems items, with mappings
\* nested up to three deep, with a dotted key, and with a string where a
\* mapping is looked for.
FieldConfigs ==
  {JDict("zones" :> JList([i \in 1..n |-> JStr("zone")])) : n \in 0..MaxItems}
    \cup {EmptyDict,
          JDict("a" :> JDict("b" :> JDict("c" :> JNum(1)))),
          JDict("a" :> JDict("b" :> EmptyDict)),
          JDict("a" :> JDict("b" :> JNum(1))),
          JDict("a" :> EmptyDict),
          JDict("a.b" :> JDict("c" :> JNum(1))),
          JDict("a" :> JStr("b"))}

FieldNames == {"zones", "a", "a.b", "a.b.c"}

FieldTypes == {"none", "dict", "list", TUPLE_OF_LIST_TYPES}

Limits == {JNull} \cup {JNum(n) : n \in 0..MaxItems}

FieldCheckCalls ==
  [cfg : FieldConfigs, field_name : FieldNames, field_type : FieldTypes,
   required : BOOLEAN, list_min : Limits, list_max : Limits]

FieldCheckOf(args) ==
  FieldCheck(LintResults, args.cfg, args.field_name, args.field_type,
             args.required, "none", args.list_min, args.list_max)

FieldCheckReturns ==
  /\ callPc = "ready"
  /\ ~HasFailed(FieldCheckOf(callArgs))
  /\ callResult' = FieldCheckOf(callArgs)
  /\ callPc' = "returned"
  /\ UNCHANGED <<callArgs, notCall>>

\* d.get(k[0]) on a value that is not a mapping.
FieldCheckRaises ==
  /\ callPc = "ready"
  /\ HasFailed(FieldCheckOf(callArgs))
  /\ callResult' = FieldCheckOf(callArgs)
  /\ callPc' = "raised"
  /\ UNCHANGED <<callArgs, notCall>>

InitFieldCheck ==
  /\ callArgs \in FieldCheckCalls
  /\ callResult = <<>>
  /\ callPc = "ready"
  /\ uuidCount = 0
  /\ ShardIdle
  /\ RunIdle
  /\ GcsIdle
  /\ LintIdle
  /\ RowsIdle
  /\ TasksIdle
  /\ PushIdle

NextFieldCheck == FieldCheckReturns \/ FieldCheckRaises

SpecFieldCheck == InitFieldCheck /\ [][NextFieldCheck]_vars

\* The entry of a check in the results of the call.
Recorded(check) == check \in DOMAIN callResult.results[2]
Passed(check) == callResult.results[2][check][2]["pass"][2]

\* C27: FieldCheck(field, field_type=list, list_min=m, list_max=M) on a
\* stage config that has the field, a list of l items, records
\* FieldMinLength passing iff l >= m and FieldMaxLength passing iff l <= M,
\* and leaves the stage invalid when l < m (l = 0 included).
C27_ListLengthChecked ==
  (/\ callPc = "returned"
   /\ callArgs.field_type = "list"
   /\ callArgs.list_min # JNull
   /\ callArgs.list_max # JNull
   /\ callArgs.field_name \in DOMAIN callArgs.cfg[2]
   /\ callArgs.cfg[2][callArgs.field_name][1] = "list") =>
    LET l == Len(callArgs.cfg[2][callArgs.field_name][2])
    IN  /\ Recorded(CHECK_FIELD_MIN_LENGTH)
        /\ Passed(CHECK_FIELD_MIN_LENGTH) <=> l >= callArgs.list_min[2]
        /\ Recorded(CHECK_FIELD_MAX_LENGTH)
        /\ Passed(CHECK_FIELD_MAX_LENGTH) <=> l <= callArgs.list_max[2]
        /\ l < callArgs.list_min[2] => ~callResult.valid

\* The keys of a dotted field name, outermost first.
RECURSIVE PathKeys(_)
PathKeys(key) ==
  LET k == SplitFirst(key)
  IN IF Len(k) = 1 THEN k ELSE <<k[1]>> \o PathKeys(k[2])

\* Every mapping along the path has the next key.
RECURSIVE PathPresent(_, _)
PathPresent(d, keys) ==
  \/ keys = <<>>
  \/ /\ d[1] = "dict"
     /\ Head(keys) \in DOMAIN d[2]
     /\ PathPresent(d[2][Head(keys)], Tail(keys))

\* C28: FieldCheck of a required field with a dotted name of any depth
\* records an existence check that passes iff every mapping along the path
\* config[a][b][c] has the next key.
C28_NestedPathRead ==
  (callPc = "returned" /\ callArgs.required) =>
    LET exists == "FieldExists [" \o callArgs.field_name \o "]"
    IN  /\ Recorded(exists)
        /\ Passed(exists) <=>
             PathPresent(callArgs.cfg, PathKeys(callArgs.field_name))

(***************************************************************************)
(* CsvMatchReplace.run over a source file, split into shards or not.  The   *)
(* file is the sequence of the byte lengths of its rows, line end included; *)
(* callArgs holds it, and callResult holds, per ReadTransformWrite call     *)
(* made so far, the rows (by number) that call read and transformed.  Each  *)
(* shard reads the same source and writes a sink of its own, so the calls   *)
(* are taken in shard order.                                                *)
(***************************************************************************)
MaxFileRows == 3
MaxRowBytes == 4

\* The file position after row i: where row i + 1 starts.
RECURSIVE RowEnd(_, _)
RowEnd(rows, i) == IF i = 0 THEN 0 ELSE RowEnd(rows, i - 1) + rows[i]

\* StatObject(url=source_url)['size']
FileSize(rows) == RowEnd(rows, Len(rows))

\* The row that holds the byte at pos.
RowAt(rows, pos) ==
  CHOOSE i \in 1..Len(rows) : RowEnd(rows, i - 1) <= pos /\ pos < RowEnd(rows, i)

\* source_file.readline() at pos: the position after the next line end, or
\* pos at the end of the file.
ReadLine(rows, pos) ==
  IF pos >= FileSize(rows) THEN pos ELSE RowEnd(rows, RowAt(rows, pos))

\* ReadTransformWriteRows with the file at pos: `for row in csv_reader`
\* reads the row at pos, the row is transformed and written, and the loop
\* breaks when finished_func, source_file.tell() > start + length, holds.
RECURSIVE ReadRows(_, _, _, _)
ReadRows(rows, pos, start, length) ==
  IF pos >= FileSize(rows) THEN <<>>
  ELSE LET tell == ReadLine(rows, pos)
       IN <<RowAt(rows, pos)>>
            \o (IF length > 0 /\ tell > start + length THEN <<>>
                ELSE ReadRows(rows, tell, start, length))

\* ReadTransformWrite(config, source_url, sink_url): the rows it writes.
\*   if start > 0: source_file.seek(start); source_file.readline()
ReadTransformWrite(rows, cfg) ==
  LET start == Get(cfg, "start", 0)
      length == Get(cfg, "length", -1)
  IN ReadRows(rows, IF start > 0 THEN ReadLine(rows, start) ELSE 0,
              start, length)

\* A shard yielded by run(): CsvMatchReplace.run(shard config), which does
\* not split again and calls ReadTransformWrite.
ShardReadTransformWrite ==
  /\ shardPc = "split"
  /\ callPc = "ready"
  /\ Len(callResult) < Len(shards)
  /\ callResult' = Append(callResult,
                          ReadTransformWrite(callArgs,
                                             shards[Len(callResult) + 1]))
  /\ UNCHANGED <<callArgs, callPc, notCall>>

\* The compositor yielded After the shards has composed their sinks.
ShardsComposed ==
  /\ shardPc = "split"
  /\ callPc = "ready"
  /\ Len(callResult) = Len(shards)
  /\ callPc' = "returned"
  /\ UNCHANGED <<callArgs, callResult, notCall>>

\* run() of a job ShardStage does not split: one ReadTransformWrite.
UnsplitReadTransformWrite ==
  /\ shardPc = "unsplit"
  /\ callPc = "ready"
  /\ callResult' = <<ReadTransformWrite(callArgs, config)>>
  /\ callPc' = "returned"
  /\ UNCHANGED <<callArgs, notCall>>

SourceFiles ==
  UNION {[1..n -> 1..MaxRowBytes] : n \in 1..MaxFileRows}

\* config['length'] = StatObject(url=source_url)['size'] - start, with
\* start = 0 and a shardSize given.
InitCsvShards ==
  /\ callArgs \in SourceFiles
  /\ \E sz \in 1..MaxShardSize :
       config = [start |-> 0, length |-> FileSize(callArgs),
                 shardSize |-> sz, sinks |-> <<SinkUrl(1)>>]
  /\ config0 = config
  /\ shards = <<>>
  /\ compositors = <<>>
  /\ shardPc = "ready"
  /\ callResult = <<>>
  /\ callPc = "ready"
  /\ uuidCount = 0
  /\ RunIdle
  /\ GcsIdle
  /\ LintIdle
  /\ RowsIdle
  /\ TasksIdle
  /\ PushIdle

NextCsvShards ==
  \/ ShardStageSplit
  \/ ShardStageUnsplit
  \/ ShardReadTransformWrite
  \/ ShardsComposed
  \/ UnsplitReadTransformWrite

SpecCsvShards == InitCsvShards /\ [][NextCsvShards]_vars

\* The outputs of the calls, one after the other.
RECURSIVE Concatenated(_)
Concatenated(outputs) ==
  IF outputs = <<>> THEN <<>> ELSE Head(outputs) \o Concatenated(Tail(outputs))

\* C30: when the job was split and all its shards have run, every row of
\* the source range was read by exactly one shard, and the shard outputs
\* concatenated in shard order are the output of the unsplit run over the
\* same range.
C30_EachRowInOneShard ==
  (shardPc = "split" /\ callPc = "returned") =>
    /\ \A i \in 1..Len(callArgs) :
         Cardinality({<<k, j>> \in (1..Len(callResult)) \X (1..Len(callArgs)) :
                        j \in DOMAIN callResult[k] /\ callResult[k][j] = i}) = 1
    /\ Concatenated(callResult) = ReadTransformWrite(callArgs, config0)
====
